---- MODULE Spec2Model ----
(***************************************************************************)
(* Order-fulfillment pipeline of cs6650-hw10-microservices.                *)
(*                                                                         *)
(*   warehouse-service  (listing in warehouse-service/README.md, 470-700): *)
(*     a RabbitMQ consumer with one distributor goroutine, numWorkers      *)
(*     worker goroutines, manual acknowledgements and shared counters.     *)
(*   shopping-cart-service/main.go:                                        *)
(*     the in-memory cart store (sync.Map of ShoppingCart values whose     *)
(*     Items slices share backing arrays) and the checkout saga.           *)
(*                                                                         *)
(* The two services are separate processes; each has its own initial       *)
(* predicate, next-state relation and specification over one variable      *)
(* tuple, and leaves the other service's variables unchanged.              *)
(***************************************************************************)
EXTENDS Integers, Sequences, FiniteSets, TLC

(***************************************************************************)
(* Bounds of the model.                                                    *)
(***************************************************************************)
\* Messages on the warehouse_orders queue when the consumer starts.
MaxMsgs == 3
\* Worker goroutines (numWorkers is 10 in the source; scaled down).
NumWorkers == 2

(***************************************************************************)
(* Program constants of the warehouse service.                             *)
(***************************************************************************)
\* ch.Qos(1, 0, false)
PrefetchCount == 1

WhProducts == {"P1", "P2"}

\* A CartItem of the wire schema.
Item(p, q) == [product_id |-> p, quantity |-> q]

\* Message bodies found on the queue: JSON documents of the WarehouseOrder
\* schema (with their items), and a body that is not JSON at all.
OrderBodies ==
    { [json |-> TRUE, items |-> <<>>],
      [json |-> TRUE, items |-> <<Item("P1", 1)>>],
      [json |-> TRUE, items |-> <<Item("P1", 2), Item("P2", 1)>>] }

GarbageBody == [json |-> FALSE, items |-> <<>>]

Bodies == OrderBodies \cup {GarbageBody}

\* json.Unmarshal(msg.Body, &order)
Unmarshal(body) ==
    IF body.json
    THEN [err |-> FALSE, order |-> [Items |-> body.items]]
    ELSE [err |-> TRUE, order |-> [Items |-> <<>>]]

\* ch.Consume(queue, consumer, ...): the client library replaces an empty
\* consumer tag by a generated, non-empty one.
ConsumeTag(consumer) == IF consumer = "" THEN "ctag-warehouse-1" ELSE consumer

NoStats == -1

VARIABLES
    \* ---- broker side of the warehouse_orders queue
    sent,          \* bodies of all messages ever put on the queue, by id
    ready,         \* ids waiting on the broker, in queue order
    unacked,       \* ids delivered to this consumer and not settled
    acked,         \* ids the broker saw acknowledged
    rejected,      \* ids the broker saw rejected without requeue
    consumerTag,   \* tag under which the consumer is registered
    consuming,     \* the broker still has the consumer registered
    connOpen,      \* the AMQP connection/channel is usable
    \* ---- consumer process
    msgs,          \* deliveries buffered in the library's msgs channel
    msgsClosed,    \* msgs has been closed by the library
    received,      \* ids the distributor took out of msgs
    messageChan,   \* the buffered distribution channel
    chanClosed,    \* close(messageChan) has happened
    distPc, distMsg,
    wPc, wMsg, wOrder, wIdx,
    totalOrders, productQty, productMutex,
    sigChan, mainPc, statsOut

whVars == <<sent, ready, unacked, acked, rejected, consumerTag, consuming,
            connOpen, msgs, msgsClosed, received, messageChan, chanClosed,
            distPc, distMsg, wPc, wMsg, wOrder, wIdx,
            totalOrders, productQty, productMutex, sigChan, mainPc, statsOut>>

VARIABLES
    \* ---- shopping cart service
    carts,         \* the sync.Map: cart id -> stored ShoppingCart value
    heap,          \* backing arrays of the Items slices, by address
    nextId,        \* number of cart ids generated so far (uuid.New)
    req,           \* the HTTP requests being handled, one per slot
    published,     \* orders published to warehouse_orders, oldest first
    ops,           \* number of requests accepted so far
    checkedOut     \* cart ids for which a checkout has returned 200

cartVars == <<carts, heap, nextId, req, published, ops, checkedOut>>

VARIABLES
    \* ---- life of the warehouse process: connectRabbitMQ and restarts
    envWorkers,    \* WAREHOUSE_WORKERS in the process environment, or Unset
    dialI,         \* loop index i of connectRabbitMQ
    dialCount,     \* amqp.Dial calls made so far
    slept,         \* seconds of each time.Sleep of connectRabbitMQ, in order
    queueDeclared, \* ch.QueueDeclare has been called
    crashes,       \* consumer instances that were killed so far
    prevTotal      \* orders counted by the instances that were killed

lifeVars ==
    <<envWorkers, dialI, dialCount, slept, queueDeclared, crashes, prevTotal>>

VARIABLES
    \* ---- credit card authorizer: one POST /authorize
    ccaIn,         \* the request body: credit_card_number and amount
    ccaPc,         \* position of the handler authorizePayment
    ccaOut         \* the response: HTTP code, status, transaction_id

ccaVars == <<ccaIn, ccaPc, ccaOut>>

VARIABLES
    \* ---- one cart under a sequence of AddItem calls, one after another
    addCalls,      \* the product id and quantity of each call, in order
    addDone,       \* calls applied so far
    addLines       \* the cart's Items after those calls

seqVars == <<addCalls, addDone, addLines>>

vars == <<whVars, cartVars, lifeVars, ccaVars, seqVars>>

Workers == 1..NumWorkers

\* make(chan amqp.Delivery, numWorkers*2)
MessageChanCap == NumWorkers * 2

SeqsUpTo(S, n) == UNION { [1..k -> S] : k \in 0..n }

(***************************************************************************)
(* Shopping cart service: constants, values and helpers.                   *)
(***************************************************************************)
\* Cart ids (uuid.New) that can be generated in one run.
MaxCarts == 2
\* HTTP requests accepted in one run.
MaxOps == 3
\* Lines of the cart that exists when the run starts.
MaxInitLines == 3

\* Request slots: handlers that can be running at the same time.
Reqs == {1, 2}

CartIds == 1..MaxCarts

\* Product ids sent by clients: one the initial cart holds, two it lacks.
CartProducts == {"P1", "P4", "P5"}

\* binding:"required,min=1,max=10000"
MinQuantity == 1
MaxQuantity == 10000

\* Quantities sent by clients: 0 and MaxQuantity + 1 fail the binding of
\* AddItemRequest.
QtyInputs == {0, 1, 2, MaxQuantity + 1}

\* calculateTotal: $10 per item
UnitPrice == 10

\* A slice header: address of the backing array, length, capacity.
\* Address 0 is the array of the empty literal []CartItem{}.
NoHdr == [arr |-> 0, len |-> 0, cap |-> 0]

\* Zero value of CartItem, the content of a freshly allocated slot.
ZeroItem == [product_id |-> "", quantity |-> 0]

\* Values of the sync.Map: a ShoppingCart struct (its Items header) or none.
NoCart == [present |-> FALSE, Items |-> NoHdr]

StoredCart(hdr) == [present |-> TRUE, Items |-> hdr]

\* The elements of a slice, read through its header.
ItemsOf(h, hdr) ==
    IF hdr.len = 0 THEN <<>> ELSE SubSeq(h[hdr.arr], 1, hdr.len)

\* Addresses reachable from the store and from the running handlers.
Live(c, q) ==
    ({ c[i].Items.arr : i \in DOMAIN c } \cup { q[r].hdr.arr : r \in DOMAIN q })
        \ {0}

\* The heap after garbage collection.
Collect(h, c, q) == [a \in Live(c, q) |-> h[a]]

\* First free address.
NewAddr(h) ==
    CHOOSE a \in 1..(Cardinality(DOMAIN h) + 1) :
        /\ a \notin DOMAIN h
        /\ \A b \in 1..(a - 1) : b \in DOMAIN h

\* runtime.growslice for an append of one 24-byte element: 0 -> 1, then
\* doubling (below 256 elements).
GrowCap(cap) == IF cap = 0 THEN 1 ELSE 2 * cap

\* Responses of the payment gateway as the client sees them: the HTTP
\* exchange or the decoding of the body fails, or a status code arrives
\* together with the status field of the decoded body.
GatewayFailure == [fail |-> TRUE, code |-> 0, status |-> ""]

GatewayResponses ==
    { GatewayFailure,
      [fail |-> FALSE, code |-> 200, status |-> "Authorized"],
      [fail |-> FALSE, code |-> 200, status |-> "Declined"],
      [fail |-> FALSE, code |-> 402, status |-> "Declined"],
      [fail |-> FALSE, code |-> 402, status |-> "Authorized"],
      [fail |-> FALSE, code |-> 400, status |-> ""],
      [fail |-> FALSE, code |-> 500, status |-> ""] }

NoResponse == [fail |-> FALSE, code |-> 0, status |-> ""]

\* A request slot with no request.
IdleReq ==
    [kind |-> "none", pc |-> "idle", id |-> 0, pid |-> "", qty |-> 0,
     hdr |-> NoHdr, idx |-> 0, tmp |-> 0, amount |-> 0,
     cca |-> NoResponse, nCca |-> 0, nPub |-> 0, pubErr |-> FALSE,
     status |-> 0, loaded |-> <<>>]

\* The products of the lines of the initial cart, in the order added.
InitProducts == <<"P1", "P2", "P3", "P6">>

RECURSIVE CapAfter(_)
\* Capacity of Items after k appends to the empty literal.
CapAfter(k) ==
    IF k = 0 THEN 0
    ELSE IF k <= CapAfter(k - 1) THEN CapAfter(k - 1)
    ELSE GrowCap(CapAfter(k - 1))

\* The store after POST /shopping-carts and k sequential AddItem calls of
\* quantity 1 for the first k products: cart 1 with k lines.
CartWithLines(k) ==
    /\ carts = [i \in CartIds |->
                 IF i = 1
                 THEN StoredCart([arr |-> IF k = 0 THEN 0 ELSE 1, len |-> k,
                                  cap |-> CapAfter(k)])
                 ELSE NoCart]
    /\ heap = IF k = 0 THEN << >>
              ELSE 1 :> [i \in 1..CapAfter(k) |->
                           IF i <= k THEN Item(InitProducts[i], 1)
                           ELSE ZeroItem]
    /\ nextId = 1

\* The cart service when the run starts: no request is being handled; the
\* store is empty (the state after initRabbitMQ) or holds one cart that
\* earlier requests created and filled.
CartInit ==
    /\ \E k \in 0..MaxInitLines :
          IF k = 0
          THEN /\ carts = [i \in CartIds |-> NoCart]
               /\ heap = << >>
               /\ nextId = 0
          ELSE CartWithLines(k)
    /\ req = [r \in Reqs |-> IdleReq]
    /\ published = <<>>
    /\ ops = 0
    /\ checkedOut = {}

\* The cart service is not running.
CartIdle ==
    /\ carts = [i \in CartIds |-> NoCart]
    /\ heap = << >>
    /\ nextId = 0
    /\ req = [r \in Reqs |-> IdleReq]
    /\ published = <<>>
    /\ ops = 0
    /\ checkedOut = {}

\* WAREHOUSE_WORKERS is not in the environment of the process.
Unset == 0

\* No response written.
NoAuthOut == [code |-> 0, status |-> "", transaction_id |-> ""]

\* The authorizer is not running.
CcaIdle ==
    /\ ccaIn = [credit_card_number |-> <<>>, amount |-> 0]
    /\ ccaPc = "off"
    /\ ccaOut = NoAuthOut

\* No sequence of AddItem calls is being applied.
SeqIdle ==
    /\ addCalls = <<>>
    /\ addDone = 0
    /\ addLines = <<>>

\* The warehouse process was never started.
LifeIdle ==
    /\ envWorkers = Unset
    /\ dialI = 0
    /\ dialCount = 0
    /\ slept = <<>>
    /\ queueDeclared = FALSE
    /\ crashes = 0
    /\ prevTotal = 0

\* The warehouse process connected at its first attempt and declared the
\* queue.
LifeConnected ==
    /\ envWorkers = Unset
    /\ dialI = 0
    /\ dialCount = 1
    /\ slept = <<>>
    /\ queueDeclared = TRUE
    /\ crashes = 0
    /\ prevTotal = 0

\* The warehouse service is not running.
WhIdle ==
    /\ sent = <<>>
    /\ ready = <<>>
    /\ unacked = {}
    /\ acked = {}
    /\ rejected = {}
    /\ consumerTag = ""
    /\ consuming = FALSE
    /\ connOpen = FALSE
    /\ msgs = <<>>
    /\ msgsClosed = FALSE
    /\ received = {}
    /\ messageChan = <<>>
    /\ chanClosed = FALSE
    /\ distPc = "off"
    /\ distMsg = 0
    /\ wPc = [w \in 1..NumWorkers |-> "off"]
    /\ wMsg = [w \in 1..NumWorkers |-> 0]
    /\ wOrder = [w \in 1..NumWorkers |-> [Items |-> <<>>]]
    /\ wIdx = [w \in 1..NumWorkers |-> 0]
    /\ totalOrders = 0
    /\ productQty = [p \in WhProducts |-> 0]
    /\ productMutex = 0
    /\ sigChan = 0
    /\ mainPc = "off"
    /\ statsOut = NoStats

(***************************************************************************)
(* Warehouse service: state after main has connected, declared the queue,  *)
(* set the QoS, registered the consumer and started the goroutines.        *)
(***************************************************************************)
WhInit ==
    /\ sent \in SeqsUpTo(Bodies, MaxMsgs)
    /\ ready = [i \in 1..Len(sent) |-> i]
    /\ unacked = {}
    /\ acked = {}
    /\ rejected = {}
    /\ consumerTag = ConsumeTag("")
    /\ consuming = TRUE
    /\ connOpen = TRUE
    /\ msgs = <<>>
    /\ msgsClosed = FALSE
    /\ received = {}
    /\ messageChan = <<>>
    /\ chanClosed = FALSE
    /\ distPc = "recv"
    /\ distMsg = 0
    /\ wPc = [w \in Workers |-> "recv"]
    /\ wMsg = [w \in Workers |-> 0]
    /\ wOrder = [w \in Workers |-> [Items |-> <<>>]]
    /\ wIdx = [w \in Workers |-> 0]
    /\ totalOrders = 0
    /\ productQty = [p \in WhProducts |-> 0]
    /\ productMutex = 0
    /\ sigChan = 0
    /\ mainPc = "waitsig"
    /\ statsOut = NoStats

\* ---- the broker ---------------------------------------------------------

\* Variant of Deliver: the consumer was registered with auto-ack = true, so
\* the broker settles every delivery as acknowledged when it sends it.
DeliverAutoAck ==
    /\ connOpen /\ consuming
    /\ ready # <<>>
    /\ Cardinality(unacked) < PrefetchCount
    /\ acked' = acked \cup {Head(ready)}
    /\ msgs' = Append(msgs, Head(ready))
    /\ ready' = Tail(ready)
    /\ UNCHANGED <<seqVars, ccaVars, lifeVars, cartVars,
                   sent, unacked, rejected, consumerTag, consuming, connOpen,
                   msgsClosed, received, messageChan, chanClosed, distPc,
                   distMsg, wPc, wMsg, wOrder, wIdx, totalOrders, productQty,
                   productMutex, sigChan, mainPc, statsOut>>

\* Variant of Deliver: no ch.Qos call, so the broker pushes every waiting
\* message to the consumer at once.
DeliverUnlimited ==
    /\ connOpen /\ consuming
    /\ ready # <<>>
    /\ unacked' = unacked \cup {Head(ready)}
    /\ msgs' = Append(msgs, Head(ready))
    /\ ready' = Tail(ready)
    /\ UNCHANGED <<seqVars, ccaVars, lifeVars, cartVars,
                   sent, acked, rejected, consumerTag, consuming, connOpen,
                   msgsClosed, received, messageChan, chanClosed, distPc,
                   distMsg, wPc, wMsg, wOrder, wIdx, totalOrders, productQty,
                   productMutex, sigChan, mainPc, statsOut>>

\* The broker pushes the head of the queue to the consumer while fewer than
\* PrefetchCount deliveries are unsettled.
Deliver ==
    /\ connOpen /\ consuming
    /\ ready # <<>>
    /\ Cardinality(unacked) < PrefetchCount
    /\ unacked' = unacked \cup {Head(ready)}
    /\ msgs' = Append(msgs, Head(ready))
    /\ ready' = Tail(ready)
    /\ UNCHANGED <<seqVars, ccaVars, lifeVars, cartVars,
                   sent, acked, rejected, consumerTag, consuming, connOpen,
                   msgsClosed, received, messageChan, chanClosed, distPc,
                   distMsg, wPc, wMsg, wOrder, wIdx, totalOrders, productQty,
                   productMutex, sigChan, mainPc, statsOut>>

\* Ids of a set, as a sequence in increasing order.
RECURSIVE InOrder(_)
InOrder(S) ==
    IF S = {} THEN <<>>
    ELSE LET m == CHOOSE x \in S : \A y \in S : x <= y
         IN <<m>> \o InOrder(S \ {m})

\* The connection to the broker is lost mid-stream.  The broker requeues
\* the unsettled deliveries; the library closes msgs, and deliveries still
\* buffered in the library may or may not be handed out before that.
ConnectionLost ==
    /\ connOpen
    /\ mainPc # "stopped"
    /\ connOpen' = FALSE
    /\ consuming' = FALSE
    /\ ready' = InOrder(unacked) \o ready
    /\ unacked' = {}
    /\ msgsClosed' = TRUE
    /\ msgs' \in {msgs, <<>>}
    /\ UNCHANGED <<seqVars, ccaVars, lifeVars, cartVars,
                   sent, acked, rejected, consumerTag, received, messageChan,
                   chanClosed, distPc, distMsg, wPc, wMsg, wOrder, wIdx,
                   totalOrders, productQty, productMutex, sigChan, mainPc,
                   statsOut>>

\* ---- the distributor goroutine -----------------------------------------

\* for msg := range msgs
DistributorRecv ==
    /\ distPc = "recv"
    /\ msgs # <<>>
    /\ distMsg' = Head(msgs)
    /\ msgs' = Tail(msgs)
    /\ received' = received \cup {Head(msgs)}
    /\ distPc' = "send"
    /\ UNCHANGED <<seqVars, ccaVars, lifeVars, cartVars,
                   sent, ready, unacked, acked, rejected, consumerTag,
                   consuming, connOpen, msgsClosed, messageChan, chanClosed,
                   wPc, wMsg, wOrder, wIdx, totalOrders, productQty,
                   productMutex, sigChan, mainPc, statsOut>>

\* messageChan <- msg   (blocks while the buffer is full)
DistributorSend ==
    /\ distPc = "send"
    /\ Len(messageChan) < MessageChanCap
    /\ messageChan' = Append(messageChan, distMsg)
    /\ distMsg' = 0
    /\ distPc' = "recv"
    /\ UNCHANGED <<seqVars, ccaVars, lifeVars, cartVars,
                   sent, ready, unacked, acked, rejected, consumerTag,
                   consuming, connOpen, msgs, msgsClosed, received, chanClosed,
                   wPc, wMsg, wOrder, wIdx, totalOrders, productQty,
                   productMutex, sigChan, mainPc, statsOut>>

\* Variant of DistributorClose: the distributor closes messageChan as soon
\* as it finds no delivery waiting, the stream still open.
DistributorCloseWhenIdle ==
    /\ distPc = "recv"
    /\ msgs = <<>>
    /\ chanClosed' = TRUE
    /\ distPc' = "done"
    /\ UNCHANGED <<seqVars, ccaVars, lifeVars, cartVars,
                   sent, ready, unacked, acked, rejected, consumerTag,
                   consuming, connOpen, msgs, msgsClosed, received, messageChan,
                   distMsg, wPc, wMsg, wOrder, wIdx, totalOrders, productQty,
                   productMutex, sigChan, mainPc, statsOut>>

\* the range loop ends when msgs is closed and drained: close(messageChan),
\* then the deferred wg.Done()
DistributorClose ==
    /\ distPc = "recv"
    /\ msgs = <<>> /\ msgsClosed
    /\ chanClosed' = TRUE
    /\ distPc' = "done"
    /\ UNCHANGED <<seqVars, ccaVars, lifeVars, cartVars,
                   sent, ready, unacked, acked, rejected, consumerTag,
                   consuming, connOpen, msgs, msgsClosed, received, messageChan,
                   distMsg, wPc, wMsg, wOrder, wIdx, totalOrders, productQty,
                   productMutex, sigChan, mainPc, statsOut>>

\* ---- the worker goroutines: processMessages / processOrder ---------------

\* msg.Nack(multiple, requeue): on an open channel the broker settles the
\* delivery and either requeues it or drops it; on a closed channel the call
\* returns an error and the broker sees nothing.
Nack(m, multiple, requeue) ==
    IF connOpen
    THEN /\ unacked' = unacked \ {m}
         /\ IF requeue
            THEN ready' = <<m>> \o ready /\ rejected' = rejected
            ELSE ready' = ready /\ rejected' = rejected \cup {m}
    ELSE UNCHANGED <<unacked, ready, rejected>>

\* msg.Ack(multiple): on an open channel the broker settles the delivery;
\* on a closed channel the call returns an error, which is only logged.
Ack(m, multiple) ==
    IF connOpen
    THEN /\ unacked' = unacked \ {m}
         /\ acked' = acked \cup {m}
    ELSE UNCHANGED <<unacked, acked>>

\* Variant of WorkerRecv: the worker reads the message at the head of
\* messageChan and leaves it there for the others.
WorkerRecvPeeks(w) ==
    /\ wPc[w] = "recv"
    /\ messageChan # <<>>
    /\ wMsg' = [wMsg EXCEPT ![w] = Head(messageChan)]
    /\ wPc' = [wPc EXCEPT ![w] = "unmarshal"]
    /\ UNCHANGED <<seqVars, ccaVars, lifeVars, cartVars,
                   sent, ready, unacked, acked, rejected, consumerTag,
                   consuming, connOpen, msgs, msgsClosed, received, messageChan,
                   chanClosed, distPc, distMsg, wOrder, wIdx, totalOrders,
                   productQty, productMutex, sigChan, mainPc, statsOut>>

\* for msg := range messageChan
WorkerRecv(w) ==
    /\ wPc[w] = "recv"
    /\ messageChan # <<>>
    /\ wMsg' = [wMsg EXCEPT ![w] = Head(messageChan)]
    /\ messageChan' = Tail(messageChan)
    /\ wPc' = [wPc EXCEPT ![w] = "unmarshal"]
    /\ UNCHANGED <<seqVars, ccaVars, lifeVars, cartVars,
                   sent, ready, unacked, acked, rejected, consumerTag,
                   consuming, connOpen, msgs, msgsClosed, received, chanClosed,
                   distPc, distMsg, wOrder, wIdx, totalOrders, productQty,
                   productMutex, sigChan, mainPc, statsOut>>

\* Variant of WorkerStop: the worker leaves its loop as soon as messageChan
\* is closed, whatever the buffer still holds.
WorkerStopOnClose(w) ==
    /\ wPc[w] = "recv"
    /\ chanClosed
    /\ wPc' = [wPc EXCEPT ![w] = "stopped"]
    /\ UNCHANGED <<seqVars, ccaVars, lifeVars, cartVars,
                   sent, ready, unacked, acked, rejected, consumerTag,
                   consuming, connOpen, msgs, msgsClosed, received, messageChan,
                   chanClosed, distPc, distMsg, wMsg, wOrder, wIdx, totalOrders,
                   productQty, productMutex, sigChan, mainPc, statsOut>>

\* the range loop ends when messageChan is closed and drained
WorkerStop(w) ==
    /\ wPc[w] = "recv"
    /\ messageChan = <<>> /\ chanClosed
    /\ wPc' = [wPc EXCEPT ![w] = "stopped"]
    /\ UNCHANGED <<seqVars, ccaVars, lifeVars, cartVars,
                   sent, ready, unacked, acked, rejected, consumerTag,
                   consuming, connOpen, msgs, msgsClosed, received, messageChan,
                   chanClosed, distPc, distMsg, wMsg, wOrder, wIdx, totalOrders,
                   productQty, productMutex, sigChan, mainPc, statsOut>>

\* Variant of WorkerUnmarshal: the malformed message is rejected with
\* requeue = true, msg.Nack(false, true).
WorkerUnmarshalRequeues(w) ==
    /\ wPc[w] = "unmarshal"
    /\ LET u == Unmarshal(sent[wMsg[w]]) IN
       IF u.err
       THEN /\ Nack(wMsg[w], FALSE, TRUE)
            /\ wMsg' = [wMsg EXCEPT ![w] = 0]
            /\ wPc' = [wPc EXCEPT ![w] = "recv"]
            /\ UNCHANGED wOrder
       ELSE /\ wOrder' = [wOrder EXCEPT ![w] = u.order]
            /\ wPc' = [wPc EXCEPT ![w] = "count"]
            /\ UNCHANGED <<unacked, ready, rejected, wMsg>>
    /\ UNCHANGED <<seqVars, ccaVars, lifeVars, cartVars,
                   sent, acked, consumerTag, consuming, connOpen,
                   msgs, msgsClosed, received, messageChan, chanClosed,
                   distPc, distMsg, wIdx, totalOrders, productQty,
                   productMutex, sigChan, mainPc, statsOut>>

\* json.Unmarshal; on error msg.Nack(false, false) and continue
WorkerUnmarshal(w) ==
    /\ wPc[w] = "unmarshal"
    /\ LET u == Unmarshal(sent[wMsg[w]]) IN
       IF u.err
       THEN /\ Nack(wMsg[w], FALSE, FALSE)
            /\ wMsg' = [wMsg EXCEPT ![w] = 0]
            /\ wPc' = [wPc EXCEPT ![w] = "recv"]
            /\ UNCHANGED wOrder
       ELSE /\ wOrder' = [wOrder EXCEPT ![w] = u.order]
            /\ wPc' = [wPc EXCEPT ![w] = "count"]
            /\ UNCHANGED <<unacked, ready, rejected, wMsg>>
    /\ UNCHANGED <<seqVars, ccaVars, lifeVars, cartVars,
                   sent, acked, consumerTag, consuming, connOpen, msgs,
                   msgsClosed, received, messageChan, chanClosed, distPc,
                   distMsg, wIdx, totalOrders, productQty, productMutex,
                   sigChan, mainPc, statsOut>>

\* processOrder: atomic.AddInt64(&totalOrders, 1)
ProcessOrderCount(w) ==
    /\ wPc[w] = "count"
    /\ totalOrders' = totalOrders + 1
    /\ wIdx' = [wIdx EXCEPT ![w] = 1]
    /\ wPc' = [wPc EXCEPT ![w] =
                 IF Len(wOrder[w].Items) = 0 THEN "ack" ELSE "lock"]
    /\ UNCHANGED <<seqVars, ccaVars, lifeVars, cartVars,
                   sent, ready, unacked, acked, rejected, consumerTag,
                   consuming, connOpen, msgs, msgsClosed, received, messageChan,
                   chanClosed, distPc, distMsg, wMsg, wOrder, productQty,
                   productMutex, sigChan, mainPc, statsOut>>

\* Variant of ProcessOrderLock: no productMutex.Lock(), the worker goes
\* straight to the update of the map.
ProcessOrderLockSkipped(w) ==
    /\ wPc[w] = "lock"
    /\ wPc' = [wPc EXCEPT ![w] = "update"]
    /\ UNCHANGED <<seqVars, ccaVars, lifeVars, cartVars,
                   sent, ready, unacked, acked, rejected, consumerTag,
                   consuming, connOpen, msgs, msgsClosed, received, messageChan,
                   chanClosed, distPc, distMsg, wMsg, wOrder, wIdx, totalOrders,
                   productQty, productMutex, sigChan, mainPc, statsOut>>

\* processOrder: productMutex.Lock()
ProcessOrderLock(w) ==
    /\ wPc[w] = "lock"
    /\ productMutex = 0
    /\ productMutex' = w
    /\ wPc' = [wPc EXCEPT ![w] = "update"]
    /\ UNCHANGED <<seqVars, ccaVars, lifeVars, cartVars,
                   sent, ready, unacked, acked, rejected, consumerTag,
                   consuming, connOpen, msgs, msgsClosed, received, messageChan,
                   chanClosed, distPc, distMsg, wMsg, wOrder, wIdx, totalOrders,
                   productQty, sigChan, mainPc, statsOut>>

\* Variant of ProcessOrderUpdate: the quantity is assigned, not added,
\* productQty[item.ProductID] = int64(item.Quantity).
ProcessOrderUpdateAssigns(w) ==
    /\ wPc[w] = "update"
    /\ LET item == wOrder[w].Items[wIdx[w]] IN
       productQty' = [productQty EXCEPT ![item.product_id] = item.quantity]
    /\ wPc' = [wPc EXCEPT ![w] = "unlock"]
    /\ UNCHANGED <<seqVars, ccaVars, lifeVars, cartVars, sent, ready,
                   unacked, acked,
                   rejected,
                   consumerTag, consuming, connOpen, msgs, msgsClosed,
                   received, messageChan, chanClosed, distPc, distMsg, wMsg,
                   wOrder, wIdx, totalOrders, productMutex, sigChan, mainPc,
                   statsOut>>

\* processOrder: productQty[item.ProductID] += int64(item.Quantity)
ProcessOrderUpdate(w) ==
    /\ wPc[w] = "update"
    /\ LET item == wOrder[w].Items[wIdx[w]] IN
       productQty' = [productQty EXCEPT
                        ![item.product_id] = @ + item.quantity]
    /\ wPc' = [wPc EXCEPT ![w] = "unlock"]
    /\ UNCHANGED <<seqVars, ccaVars, lifeVars, cartVars,
                   sent, ready, unacked, acked, rejected, consumerTag,
                   consuming, connOpen, msgs, msgsClosed, received, messageChan,
                   chanClosed, distPc, distMsg, wMsg, wOrder, wIdx, totalOrders,
                   productMutex, sigChan, mainPc, statsOut>>

\* processOrder: productMutex.Unlock(), next item or return
ProcessOrderUnlock(w) ==
    /\ wPc[w] = "unlock"
    /\ productMutex' = 0
    /\ wIdx' = [wIdx EXCEPT ![w] = @ + 1]
    /\ wPc' = [wPc EXCEPT ![w] =
                 IF wIdx[w] < Len(wOrder[w].Items) THEN "lock" ELSE "ack"]
    /\ UNCHANGED <<seqVars, ccaVars, lifeVars, cartVars,
                   sent, ready, unacked, acked, rejected, consumerTag,
                   consuming, connOpen, msgs, msgsClosed, received, messageChan,
                   chanClosed, distPc, distMsg, wMsg, wOrder, totalOrders,
                   productQty, sigChan, mainPc, statsOut>>

\* msg.Ack(false); an error is logged and the loop goes on
WorkerAck(w) ==
    /\ wPc[w] = "ack"
    /\ Ack(wMsg[w], FALSE)
    /\ wMsg' = [wMsg EXCEPT ![w] = 0]
    /\ wOrder' = [wOrder EXCEPT ![w] = [Items |-> <<>>]]
    /\ wIdx' = [wIdx EXCEPT ![w] = 0]
    /\ wPc' = [wPc EXCEPT ![w] = "recv"]
    /\ UNCHANGED <<seqVars, ccaVars, lifeVars, cartVars,
                   sent, ready, rejected, consumerTag, consuming, connOpen,
                   msgs, msgsClosed, received, messageChan, chanClosed, distPc,
                   distMsg, totalOrders, productQty, productMutex, sigChan,
                   mainPc, statsOut>>

\* ---- main: signal handling and shutdown --------------------------------

\* The operating system delivers SIGINT/SIGTERM into sigChan.
Signal ==
    /\ mainPc = "waitsig"
    /\ sigChan = 0
    /\ sigChan' = 1
    /\ UNCHANGED <<seqVars, ccaVars, lifeVars, cartVars,
                   sent, ready, unacked, acked, rejected, consumerTag,
                   consuming, connOpen, msgs, msgsClosed, received, messageChan,
                   chanClosed, distPc, distMsg, wPc, wMsg, wOrder, wIdx,
                   totalOrders, productQty, productMutex, mainPc, statsOut>>

\* <-sigChan
MainRecvSignal ==
    /\ mainPc = "waitsig"
    /\ sigChan = 1
    /\ sigChan' = 0
    /\ mainPc' = "cancel"
    /\ UNCHANGED <<seqVars, ccaVars, lifeVars, cartVars,
                   sent, ready, unacked, acked, rejected, consumerTag,
                   consuming, connOpen, msgs, msgsClosed, received, messageChan,
                   chanClosed, distPc, distMsg, wPc, wMsg, wOrder, wIdx,
                   totalOrders, productQty, productMutex, statsOut>>

\* ch.Cancel(consumer, noWait): basic.cancel for that tag.  The broker stops
\* the consumer registered under the tag and the library closes that
\* consumer's delivery channel once its buffered deliveries are handed out;
\* a tag nobody is registered under is answered with cancel-ok and changes
\* nothing.
Cancel(consumer, noWait) ==
    IF connOpen /\ consuming /\ consumer = consumerTag
    THEN consuming' = FALSE /\ msgsClosed' = TRUE
    ELSE UNCHANGED <<consuming, msgsClosed>>

\* ch.Cancel("", false)
MainCancel ==
    /\ mainPc = "cancel"
    /\ Cancel("", FALSE)
    /\ mainPc' = "wgwait"
    /\ UNCHANGED <<seqVars, ccaVars, lifeVars, cartVars,
                   sent, ready, unacked, acked, rejected, consumerTag,
                   connOpen, msgs, received, messageChan, chanClosed, distPc,
                   distMsg, wPc, wMsg, wOrder, wIdx, totalOrders, productQty,
                   productMutex, sigChan, statsOut>>

\* wg.Wait(): returns when the distributor and every worker called wg.Done
MainWait ==
    /\ mainPc = "wgwait"
    /\ distPc = "done"
    /\ \A w \in Workers : wPc[w] = "stopped"
    /\ mainPc' = "print"
    /\ UNCHANGED <<seqVars, ccaVars, lifeVars, cartVars,
                   sent, ready, unacked, acked, rejected, consumerTag,
                   consuming, connOpen, msgs, msgsClosed, received, messageChan,
                   chanClosed, distPc, distMsg, wPc, wMsg, wOrder, wIdx,
                   totalOrders, productQty, productMutex, sigChan, statsOut>>

\* printStatistics(): atomic.LoadInt64(&totalOrders)
PrintStatistics ==
    /\ mainPc = "print"
    /\ statsOut' = totalOrders
    /\ mainPc' = "exit"
    /\ UNCHANGED <<seqVars, ccaVars, lifeVars, cartVars,
                   sent, ready, unacked, acked, rejected, consumerTag,
                   consuming, connOpen, msgs, msgsClosed, received, messageChan,
                   chanClosed, distPc, distMsg, wPc, wMsg, wOrder, wIdx,
                   totalOrders, productQty, productMutex, sigChan>>

\* main returns: the deferred ch.Close() and conn.Close() run; the broker
\* requeues whatever was still unsettled.
MainExit ==
    /\ mainPc = "exit"
    /\ mainPc' = "stopped"
    /\ connOpen' = FALSE
    /\ consuming' = FALSE
    /\ ready' = InOrder(unacked) \o ready
    /\ unacked' = {}
    /\ UNCHANGED <<seqVars, ccaVars, lifeVars, cartVars,
                   sent, acked, rejected, consumerTag, msgs, msgsClosed,
                   received, messageChan, chanClosed, distPc, distMsg, wPc,
                   wMsg, wOrder, wIdx, totalOrders, productQty, productMutex,
                   sigChan, statsOut>>

WorkerStep(w) ==
    \/ WorkerRecv(w)
    \/ WorkerStop(w)
    \/ WorkerUnmarshal(w)
    \/ ProcessOrderCount(w)
    \/ ProcessOrderLock(w)
    \/ ProcessOrderUpdate(w)
    \/ ProcessOrderUnlock(w)
    \/ WorkerAck(w)

DistributorStep == DistributorRecv \/ DistributorSend \/ DistributorClose

MainStep == MainRecvSignal \/ MainCancel \/ MainWait \/ PrintStatistics
              \/ MainExit

WhNext ==
    \/ Deliver
    \/ ConnectionLost
    \/ Signal
    \/ DistributorRecv
    \/ DistributorSend
    \/ DistributorClose
    \/ \E w \in Workers : WorkerRecv(w)
    \/ \E w \in Workers : WorkerStop(w)
    \/ \E w \in Workers : WorkerUnmarshal(w)
    \/ \E w \in Workers : ProcessOrderCount(w)
    \/ \E w \in Workers : ProcessOrderLock(w)
    \/ \E w \in Workers : ProcessOrderUpdate(w)
    \/ \E w \in Workers : ProcessOrderUnlock(w)
    \/ \E w \in Workers : WorkerAck(w)
    \/ MainRecvSignal
    \/ MainCancel
    \/ MainWait
    \/ PrintStatistics
    \/ MainExit

\* The warehouse service runs; the cart service does not.
WarehouseInit ==
    WhInit /\ LifeConnected /\ CartIdle /\ CcaIdle /\ SeqIdle

WarehouseSpec == WarehouseInit /\ [][WhNext]_vars

\* The Go scheduler runs every runnable goroutine, and the broker delivers
\* to a registered consumer with free prefetch; signals and connection
\* failures are events of the environment and carry no fairness.
WarehouseFairSpec ==
    /\ WarehouseInit
    /\ [][WhNext]_vars
    /\ WF_vars(Deliver)
    /\ WF_vars(DistributorStep)
    /\ \A w \in Workers : WF_vars(WorkerStep(w))
    /\ WF_vars(MainStep)

(***************************************************************************)
(* Warehouse service: startup.  main calls connectRabbitMQ, then opens the *)
(* channel, declares the queue, sets the QoS, registers the consumer and   *)
(* starts the goroutines.                                                  *)
(***************************************************************************)
\* Messages on the queue when the process starts (startup runs).
StartupMsgs == 1

\* Largest WAREHOUSE_WORKERS value the task definition passes to the process.
MaxEnvWorkers == 3

\* for i := 0; i < 5; i++
MaxDialAttempts == 5

\* time.Second * time.Duration(1<<uint(i)), in seconds
Backoff(i) == 2 ^ i

\* The process has been started and nothing has run yet: the broker holds
\* the queue, the process holds nothing.
StartupInit ==
    /\ sent \in SeqsUpTo(Bodies, StartupMsgs)
    /\ ready = [i \in 1..Len(sent) |-> i]
    /\ unacked = {}
    /\ acked = {}
    /\ rejected = {}
    /\ consumerTag = ""
    /\ consuming = FALSE
    /\ connOpen = FALSE
    /\ msgs = <<>>
    /\ msgsClosed = FALSE
    /\ received = {}
    /\ messageChan = <<>>
    /\ chanClosed = FALSE
    /\ distPc = "off"
    /\ distMsg = 0
    /\ wPc = [w \in Workers |-> "off"]
    /\ wMsg = [w \in Workers |-> 0]
    /\ wOrder = [w \in Workers |-> [Items |-> <<>>]]
    /\ wIdx = [w \in Workers |-> 0]
    /\ totalOrders = 0
    /\ productQty = [p \in WhProducts |-> 0]
    /\ productMutex = 0
    /\ sigChan = 0
    /\ mainPc = "dial"
    /\ statsOut = NoStats
    /\ envWorkers \in {Unset} \cup (1..MaxEnvWorkers)
    /\ dialI = 0
    /\ dialCount = 0
    /\ slept = <<>>
    /\ queueDeclared = FALSE
    /\ crashes = 0
    /\ prevTotal = 0
    /\ CartIdle
    /\ CcaIdle
    /\ SeqIdle

\* connectRabbitMQ: conn, err = amqp.Dial(rabbitmqURL); on success the
\* function returns the connection
Dial(ok) ==
    /\ mainPc = "dial"
    /\ dialCount' = dialCount + 1
    /\ connOpen' = ok
    /\ mainPc' = IF ok THEN "setup" ELSE "dialfailed"
    /\ UNCHANGED <<seqVars, ccaVars, cartVars, envWorkers, dialI, slept,
                   queueDeclared, crashes, prevTotal,
                   sent, ready, unacked, acked, rejected, consumerTag,
                   consuming, msgs, msgsClosed, received, messageChan,
                   chanClosed, distPc, distMsg, wPc, wMsg, wOrder, wIdx,
                   totalOrders, productQty, productMutex, sigChan, statsOut>>

\* Variant of DialFailed: the sleep is taken after every failed attempt,
\* the last one included (no "if i < 4").
DialFailedAlwaysSleeps ==
    /\ mainPc = "dialfailed"
    /\ slept' = Append(slept, Backoff(dialI))
    /\ dialI' = dialI + 1
    /\ mainPc' = IF dialI + 1 < MaxDialAttempts THEN "dial" ELSE "connectfatal"
    /\ UNCHANGED <<seqVars, ccaVars, cartVars, envWorkers, dialCount,
                   queueDeclared,
                   crashes, prevTotal,
                   sent, ready, unacked, acked, rejected, consumerTag,
                   consuming, connOpen, msgs, msgsClosed, received,
                   messageChan, chanClosed, distPc, distMsg, wPc, wMsg,
                   wOrder, wIdx, totalOrders, productQty, productMutex,
                   sigChan, statsOut>>

\* connectRabbitMQ after a failed Dial: log, sleep 1<<i seconds if i < 4,
\* i++; when the loop ends the error goes to main, whose log.Fatalf ends the
\* process
DialFailed ==
    /\ mainPc = "dialfailed"
    /\ slept' = IF dialI < MaxDialAttempts - 1
                THEN Append(slept, Backoff(dialI))
                ELSE slept
    /\ dialI' = dialI + 1
    /\ mainPc' = IF dialI + 1 < MaxDialAttempts THEN "dial" ELSE "connectfatal"
    /\ UNCHANGED <<seqVars, ccaVars, cartVars, envWorkers, dialCount,
                   queueDeclared,
                   crashes, prevTotal,
                   sent, ready, unacked, acked, rejected, consumerTag,
                   consuming, connOpen, msgs, msgsClosed, received,
                   messageChan, chanClosed, distPc, distMsg, wPc, wMsg,
                   wOrder, wIdx, totalOrders, productQty, productMutex,
                   sigChan, statsOut>>

\* main after connectRabbitMQ: conn.Channel, ch.QueueDeclare, ch.Qos,
\* ch.Consume, the distributor and the workers are started; an error of any
\* of the calls (the connection is gone) ends the process with log.Fatalf
Setup ==
    /\ mainPc = "setup"
    /\ IF connOpen
       THEN /\ queueDeclared' = TRUE
            /\ consumerTag' = ConsumeTag("")
            /\ consuming' = TRUE
            /\ msgsClosed' = FALSE
            /\ distPc' = "recv"
            /\ wPc' = [w \in Workers |-> "recv"]
            /\ mainPc' = "waitsig"
       ELSE /\ mainPc' = "setupfatal"
            /\ UNCHANGED <<queueDeclared, consumerTag, consuming, msgsClosed,
                           distPc, wPc>>
    /\ UNCHANGED <<seqVars, ccaVars, cartVars, envWorkers, dialI, dialCount,
                   slept,
                   crashes, prevTotal,
                   sent, ready, unacked, acked, rejected, connOpen, msgs,
                   received, messageChan, chanClosed, distMsg, wMsg, wOrder,
                   wIdx, totalOrders, productQty, productMutex, sigChan,
                   statsOut>>

StartupNext ==
    \/ \E ok \in BOOLEAN : Dial(ok)
    \/ DialFailed
    \/ Setup
    \/ WhNext

StartupSpec == StartupInit /\ [][StartupNext]_vars

(***************************************************************************)
(* Warehouse service: the process is killed and started again.  The        *)
(* counters live in process memory (var totalOrders, productQuantities),   *)
(* the messages live on the broker; the consumer is registered with        *)
(* auto-ack = false, so the broker keeps every delivery until it is        *)
(* settled and requeues the unsettled ones when the connection goes.       *)
(***************************************************************************)
\* Process kills in one run.
MaxCrashes == 1

\* Messages on the queue in the runs with a kill.
CrashMsgs == 2

\* Variant of Crash: the broker forgets the deliveries that are unsettled
\* when the connection goes (a consumer registered with auto-ack = true).
CrashLosesUnacked ==
    /\ mainPc \in {"waitsig", "cancel", "wgwait", "print", "exit"}
    /\ crashes < MaxCrashes
    /\ crashes' = crashes + 1
    /\ prevTotal' = prevTotal + totalOrders
    /\ ready' = ready
    /\ unacked' = {}
    /\ connOpen' = FALSE
    /\ consuming' = FALSE
    /\ msgs' = <<>>
    /\ msgsClosed' = FALSE
    /\ received' = {}
    /\ messageChan' = <<>>
    /\ chanClosed' = FALSE
    /\ distPc' = "off"
    /\ distMsg' = 0
    /\ wPc' = [w \in Workers |-> "off"]
    /\ wMsg' = [w \in Workers |-> 0]
    /\ wOrder' = [w \in Workers |-> [Items |-> <<>>]]
    /\ wIdx' = [w \in Workers |-> 0]
    /\ totalOrders' = 0
    /\ productQty' = [p \in WhProducts |-> 0]
    /\ productMutex' = 0
    /\ sigChan' = 0
    /\ mainPc' = "crashed"
    /\ UNCHANGED <<seqVars, ccaVars, cartVars, envWorkers, dialI, dialCount,
                   slept,
                   queueDeclared,
                   sent, acked, rejected, consumerTag, statsOut>>

\* The process is killed at any point after startup: no deferred call runs,
\* every goroutine and every value in memory is gone, the counters with
\* them (prevTotal keeps what the dead instances had counted).  The broker
\* sees the connection go and requeues the unsettled deliveries.
Crash ==
    /\ mainPc \in {"waitsig", "cancel", "wgwait", "print", "exit"}
    /\ crashes < MaxCrashes
    /\ crashes' = crashes + 1
    /\ prevTotal' = prevTotal + totalOrders
    /\ ready' = InOrder(unacked) \o ready
    /\ unacked' = {}
    /\ connOpen' = FALSE
    /\ consuming' = FALSE
    /\ msgs' = <<>>
    /\ msgsClosed' = FALSE
    /\ received' = {}
    /\ messageChan' = <<>>
    /\ chanClosed' = FALSE
    /\ distPc' = "off"
    /\ distMsg' = 0
    /\ wPc' = [w \in Workers |-> "off"]
    /\ wMsg' = [w \in Workers |-> 0]
    /\ wOrder' = [w \in Workers |-> [Items |-> <<>>]]
    /\ wIdx' = [w \in Workers |-> 0]
    /\ totalOrders' = 0
    /\ productQty' = [p \in WhProducts |-> 0]
    /\ productMutex' = 0
    /\ sigChan' = 0
    /\ mainPc' = "crashed"
    /\ UNCHANGED <<seqVars, ccaVars, cartVars, envWorkers, dialI, dialCount,
                   slept,
                   queueDeclared,
                   sent, acked, rejected, consumerTag, statsOut>>

\* The next instance of the process: main connects, registers its consumer
\* and starts the distributor and the workers, with counters at zero.
Restart ==
    /\ mainPc = "crashed"
    /\ connOpen' = TRUE
    /\ consumerTag' = ConsumeTag("")
    /\ consuming' = TRUE
    /\ distPc' = "recv"
    /\ wPc' = [w \in Workers |-> "recv"]
    /\ mainPc' = "waitsig"
    /\ statsOut' = NoStats
    /\ UNCHANGED <<seqVars, ccaVars, lifeVars, cartVars,
                   sent, ready, unacked, acked, rejected, msgs, msgsClosed,
                   received, messageChan, chanClosed, distMsg, wMsg, wOrder,
                   wIdx, totalOrders, productQty, productMutex, sigChan>>

CrashInit == WarehouseInit /\ Len(sent) <= CrashMsgs

CrashNext ==
    \/ Crash
    \/ Restart
    \/ WhNext

CrashSpec == CrashInit /\ [][CrashNext]_vars

(***************************************************************************)
(* Credit card authorizer: POST /authorize.  A card number is the sequence *)
(* of its characters.                                                      *)
(***************************************************************************)
\* [0-9], the class \d of Go's regexp
Digits == {"0", "1", "2", "3", "4", "5", "6", "7", "8", "9"}

\* The README's example of a well-formed number, 1234-5678-9012-3456.
ExampleCard ==
    <<"1", "2", "3", "4", "-", "5", "6", "7", "8", "-",
      "9", "0", "1", "2", "-", "3", "4", "5", "6">>

\* Characters a client puts where they do not belong.
OddChars == {"7", "-", "a", " "}

\* s without its i-th character.
DropAt(s, i) == SubSeq(s, 1, i - 1) \o SubSeq(s, i + 1, Len(s))

\* s with c before its i-th character (i = Len(s) + 1: at the end).
InsertAt(s, i, c) == SubSeq(s, 1, i - 1) \o <<c>> \o SubSeq(s, i, Len(s))

\* Card numbers clients send: the example, the example with one character
\* replaced, dropped or inserted, the sixteen digits without dashes of
\* test.sh, and the empty string.
CardInputs ==
    {ExampleCard, <<>>, SelectSeq(ExampleCard, LAMBDA c : c # "-")}
      \cup {[ExampleCard EXCEPT ![i] = c] :
               i \in 1..Len(ExampleCard), c \in OddChars}
      \cup {DropAt(ExampleCard, i) : i \in 1..Len(ExampleCard)}
      \cup {InsertAt(ExampleCard, i, c) :
               i \in 1..(Len(ExampleCard) + 1), c \in OddChars}

\* Amounts clients send, in cents; 0 is also what a missing field binds to.
AmountInputs == {0, 1234}

\* The pattern ^\d{4}-\d{4}-\d{4}-\d{4}$ as its sequence of atoms.
Pattern ==
    <<"d", "d", "d", "d", "-", "d", "d", "d", "d", "-",
      "d", "d", "d", "d", "-", "d", "d", "d", "d">>

\* The atoms of Pattern match s from position k + 1 on.
MatchesAt(s, k) ==
    /\ k + Len(Pattern) <= Len(s)
    /\ \A i \in 1..Len(Pattern) :
         IF Pattern[i] = "d" THEN s[k + i] \in Digits ELSE s[k + i] = "-"

\* regexp.MatchString(pattern, s): ^ and $ anchor the match to the whole
\* text
MatchString(s) == Len(s) = Len(Pattern) /\ MatchesAt(s, 0)

\* ShouldBindJSON(&req) of AuthRequest: both fields are binding:"required",
\* which a zero value fails
BindsAuthRequest(body) ==
    body.credit_card_number # <<>> /\ body.amount # 0

\* A client has sent a request; the handler has not run yet.
AuthorizerRequest ==
    /\ ccaIn \in [credit_card_number : CardInputs, amount : AmountInputs]
    /\ ccaPc = "bind"
    /\ ccaOut = NoAuthOut

\* authorizePayment: ShouldBindJSON; 400 "invalid request" on failure
AuthBind ==
    /\ ccaPc = "bind"
    /\ IF BindsAuthRequest(ccaIn)
       THEN ccaPc' = "format" /\ ccaOut' = ccaOut
       ELSE /\ ccaPc' = "done"
            /\ ccaOut' = [code |-> 400, status |-> "", transaction_id |-> ""]
    /\ UNCHANGED <<seqVars, whVars, cartVars, lifeVars, ccaIn>>

\* Variant of AuthFormat: the pattern has no ^ and $, so a number passes
\* when some part of it matches.
AuthFormatUnanchored ==
    /\ ccaPc = "format"
    /\ IF \E k \in 0..Len(ccaIn.credit_card_number) :
             MatchesAt(ccaIn.credit_card_number, k)
       THEN ccaPc' = "decide" /\ ccaOut' = ccaOut
       ELSE /\ ccaPc' = "done"
            /\ ccaOut' = [code |-> 400, status |-> "", transaction_id |-> ""]
    /\ UNCHANGED <<seqVars, whVars, cartVars, lifeVars, ccaIn>>

\* authorizePayment: the format check; 400 "invalid credit card format"
AuthFormat ==
    /\ ccaPc = "format"
    /\ IF MatchString(ccaIn.credit_card_number)
       THEN ccaPc' = "decide" /\ ccaOut' = ccaOut
       ELSE /\ ccaPc' = "done"
            /\ ccaOut' = [code |-> 400, status |-> "", transaction_id |-> ""]
    /\ UNCHANGED <<seqVars, whVars, cartVars, lifeVars, ccaIn>>

\* authorizePayment: isAuthorized := rand.Float32() < 0.9; 200 with a fresh
\* transaction id, or 402 without one (omitempty)
AuthDecide(isAuthorized) ==
    /\ ccaPc = "decide"
    /\ ccaPc' = "done"
    /\ ccaOut' = IF isAuthorized
                 THEN [code |-> 200, status |-> "Authorized",
                       transaction_id |-> "uuid"]
                 ELSE [code |-> 402, status |-> "Declined",
                       transaction_id |-> ""]
    /\ UNCHANGED <<seqVars, whVars, cartVars, lifeVars, ccaIn>>

AuthorizerInit ==
    AuthorizerRequest /\ WhIdle /\ LifeIdle /\ CartIdle /\ SeqIdle

AuthorizerNext ==
    \/ AuthBind
    \/ AuthFormat
    \/ \E isAuthorized \in BOOLEAN : AuthDecide(isAuthorized)

AuthorizerSpec == AuthorizerInit /\ [][AuthorizerNext]_vars

(***************************************************************************)
(* Shopping cart service: the HTTP handlers.  A handler runs in its own    *)
(* goroutine; each action below is one access to shared state (the         *)
(* sync.Map, a backing array, the gateway, the broker) together with the   *)
(* local computation around it.                                            *)
(***************************************************************************)

\* A slot can take a new request; a request goes to the lowest free slot.
CanStart(r) ==
    /\ req[r].pc \in {"idle", "done"}
    /\ \A k \in Reqs : k < r => req[k].pc \notin {"idle", "done"}
    /\ ops < MaxOps

\* c.JSON(status, ...) followed by return: the handler's locals die; the
\* slot keeps what the client and the collaborators saw of the request.
Respond(rec, st) ==
    [IdleReq EXCEPT !.kind = rec.kind, !.pc = "done", !.id = rec.id,
                    !.status = st, !.cca = rec.cca, !.nCca = rec.nCca,
                    !.nPub = rec.nPub, !.pubErr = rec.pubErr]

\* ShouldBindJSON of AddItemRequest: quantity required, min=1, max=10000.
ValidQuantity(q) == q >= MinQuantity /\ q <= MaxQuantity

\* createCart: uuid.New(), Items: []CartItem{}, carts.Store
CreateCart(r) ==
    /\ CanStart(r)
    /\ nextId < MaxCarts
    /\ LET id == nextId + 1
           cs == [carts EXCEPT ![id] = StoredCart(NoHdr)]
           rq == [req EXCEPT ![r] =
                    Respond([IdleReq EXCEPT !.kind = "create", !.id = id], 201)]
       IN /\ carts' = cs
          /\ req' = rq
          /\ heap' = Collect(heap, cs, rq)
    /\ nextId' = nextId + 1
    /\ ops' = ops + 1
    /\ UNCHANGED <<seqVars, ccaVars, lifeVars, whVars, published, checkedOut>>

\* getCart: carts.Load, 404 or 200
GetCart(r, id) ==
    /\ CanStart(r)
    /\ LET rec == [IdleReq EXCEPT !.kind = "get", !.id = id]
           rq == [req EXCEPT ![r] =
                    IF carts[id].present THEN Respond(rec, 200)
                    ELSE Respond(rec, 404)]
       IN /\ req' = rq
          /\ heap' = Collect(heap, carts, rq)
    /\ ops' = ops + 1
    /\ UNCHANGED <<seqVars, ccaVars, lifeVars, whVars, carts, nextId,
                   published,
                   checkedOut>>

\* Variant of AddItemLoad: an absent cart id is taken as an empty cart, which
\* the handler's store then creates.
AddItemLoadUpserts(r, id, p, q) ==
    /\ CanStart(r)
    /\ LET rec == [IdleReq EXCEPT !.kind = "add", !.id = id, !.pid = p,
                                  !.qty = q]
           rq == [req EXCEPT ![r] =
                    IF ~ValidQuantity(q) THEN Respond(rec, 400)
                    ELSE IF ~carts[id].present THEN [rec EXCEPT !.pc = "scan"]
                    ELSE [rec EXCEPT !.pc = "scan",
                                     !.hdr = carts[id].Items,
                                     !.loaded = ItemsOf(heap, carts[id].Items)]]
       IN /\ req' = rq
          /\ heap' = Collect(heap, carts, rq)
    /\ ops' = ops + 1
    /\ UNCHANGED <<seqVars, ccaVars, lifeVars, whVars, carts, nextId,
                   published,
                   checkedOut>>

\* addItemToCart: bind the request, carts.Load, cart := value.(ShoppingCart)
AddItemLoad(r, id, p, q) ==
    /\ CanStart(r)
    /\ LET rec == [IdleReq EXCEPT !.kind = "add", !.id = id, !.pid = p,
                                  !.qty = q]
           rq == [req EXCEPT ![r] =
                    IF ~ValidQuantity(q) THEN Respond(rec, 400)
                    ELSE IF ~carts[id].present THEN Respond(rec, 404)
                    ELSE [rec EXCEPT !.pc = "scan",
                                     !.hdr = carts[id].Items,
                                     !.loaded = ItemsOf(heap, carts[id].Items)]]
       IN /\ req' = rq
          /\ heap' = Collect(heap, carts, rq)
    /\ ops' = ops + 1
    /\ UNCHANGED <<seqVars, ccaVars, lifeVars, whVars, carts, nextId,
                   published,
                   checkedOut>>

\* addItemToCart: for i := range cart.Items, up to the first line with the
\* product id, and the read half of  cart.Items[i].Quantity += req.Quantity
AddItemScan(r) ==
    /\ req[r].kind = "add" /\ req[r].pc = "scan"
    /\ LET items == ItemsOf(heap, req[r].hdr)
           hits == { i \in 1..Len(items) : items[i].product_id = req[r].pid }
       IN req' = [req EXCEPT ![r] =
                    IF hits = {}
                    THEN [@ EXCEPT !.pc = "append"]
                    ELSE LET i == CHOOSE k \in hits : \A j \in hits : k <= j
                         IN [@ EXCEPT !.pc = "incr", !.idx = i,
                                      !.tmp = items[i].quantity]]
    /\ UNCHANGED <<seqVars, ccaVars, lifeVars, whVars, carts, heap, nextId,
                   published,
                   ops,
                   checkedOut>>

\* Variant of AddItemIncrement: the line's quantity is replaced by the
\* requested one, cart.Items[i].Quantity = req.Quantity.
AddItemIncrementAssigns(r) ==
    /\ req[r].kind = "add" /\ req[r].pc = "incr"
    /\ heap' = [heap EXCEPT ![req[r].hdr.arr][req[r].idx].quantity =
                                req[r].qty]
    /\ req' = [req EXCEPT ![r].pc = "store"]
    /\ UNCHANGED <<seqVars, ccaVars, lifeVars, whVars, carts, nextId,
                   published, ops,
                   checkedOut>>

\* addItemToCart: the write half of  cart.Items[i].Quantity += req.Quantity,
\* into the backing array the stored cart shares
AddItemIncrement(r) ==
    /\ req[r].kind = "add" /\ req[r].pc = "incr"
    /\ heap' = [heap EXCEPT ![req[r].hdr.arr][req[r].idx].quantity =
                                req[r].tmp + req[r].qty]
    /\ req' = [req EXCEPT ![r].pc = "store"]
    /\ UNCHANGED <<seqVars, ccaVars, lifeVars, whVars, carts, nextId,
                   published, ops,
                   checkedOut>>

\* addItemToCart: cart.Items = append(cart.Items, CartItem(req)): in place
\* when the backing array has room, else into a grown copy
AddItemAppend(r) ==
    /\ req[r].kind = "add" /\ req[r].pc = "append"
    /\ LET hdr == req[r].hdr
           item == Item(req[r].pid, req[r].qty)
       IN IF hdr.len < hdr.cap
          THEN /\ heap' = [heap EXCEPT ![hdr.arr][hdr.len + 1] = item]
               /\ req' = [req EXCEPT ![r].pc = "store",
                                     ![r].hdr.len = hdr.len + 1]
          ELSE LET a == NewAddr(heap)
                   newcap == GrowCap(hdr.cap)
                   old == ItemsOf(heap, hdr)
                   arr == [i \in 1..newcap |->
                             IF i <= hdr.len THEN old[i]
                             ELSE IF i = hdr.len + 1 THEN item
                             ELSE ZeroItem]
                   h == [x \in DOMAIN heap \cup {a} |->
                           IF x = a THEN arr ELSE heap[x]]
                   rq == [req EXCEPT ![r].pc = "store",
                                     ![r].hdr = [arr |-> a, len |-> hdr.len + 1,
                                                 cap |-> newcap]]
               IN /\ req' = rq
                  /\ heap' = Collect(h, carts, rq)
    /\ UNCHANGED <<seqVars, ccaVars, lifeVars, whVars, carts, nextId,
                   published, ops,
                   checkedOut>>

\* Variant of AddItemStore: the cart is stored only when no other AddItem
\* on the same cart is between its load and its store; else 409.
AddItemStoreExclusive(r) ==
    /\ req[r].kind = "add" /\ req[r].pc = "store"
    /\ LET busy == \E k \in Reqs \ {r} :
                     /\ req[k].kind = "add" /\ req[k].id = req[r].id
                     /\ req[k].pc \notin {"idle", "done"}
           cs == IF busy THEN carts
                 ELSE [carts EXCEPT ![req[r].id] = StoredCart(req[r].hdr)]
           rq == [req EXCEPT ![r] = Respond(@, IF busy THEN 409 ELSE 200)]
       IN /\ carts' = cs
          /\ req' = rq
          /\ heap' = Collect(heap, cs, rq)
    /\ UNCHANGED <<seqVars, ccaVars, lifeVars, whVars, nextId, published, ops,
                   checkedOut>>

\* addItemToCart: carts.Store(cartID, cart), 200
AddItemStore(r) ==
    /\ req[r].kind = "add" /\ req[r].pc = "store"
    /\ LET cs == [carts EXCEPT ![req[r].id] = StoredCart(req[r].hdr)]
           rq == [req EXCEPT ![r] = Respond(@, 200)]
       IN /\ carts' = cs
          /\ req' = rq
          /\ heap' = Collect(heap, cs, rq)
    /\ UNCHANGED <<seqVars, ccaVars, lifeVars, whVars, nextId, published, ops,
                   checkedOut>>

\* Variant of calculateTotal: $10 per line, the quantities not looked at.
calculateTotalPerLine(items) == Len(items) * UnitPrice

RECURSIVE calculateTotal(_)
\* calculateTotal: $10 per unit over all lines
calculateTotal(items) ==
    IF items = <<>> THEN 0
    ELSE Head(items).quantity * UnitPrice + calculateTotal(Tail(items))

\* Variant of authorizePayment: a 400 is handled like a 402, its body
\* decoded and handed to the caller.
authorizePaymentDecodes400(resp) ==
    IF resp.fail THEN [err |-> TRUE, Status |-> ""]
    ELSE IF resp.code \in {402, 400}
         THEN [err |-> FALSE, Status |-> resp.status]
    ELSE IF resp.code # 200 THEN [err |-> TRUE, Status |-> ""]
    ELSE [err |-> FALSE, Status |-> resp.status]

\* authorizePayment: the outcome of the HTTP exchange as the caller sees it
authorizePayment(resp) ==
    IF resp.fail THEN [err |-> TRUE, Status |-> ""]
    ELSE IF resp.code = 402 THEN [err |-> FALSE, Status |-> resp.status]
    ELSE IF resp.code = 400 THEN [err |-> TRUE, Status |-> ""]
    ELSE IF resp.code # 200 THEN [err |-> TRUE, Status |-> ""]
    ELSE [err |-> FALSE, Status |-> resp.status]

\* checkout: ShouldBindJSON(&req) fails (credit_card_number is required):
\* 400 before the cart is looked at
CheckoutBadRequest(r, id) ==
    /\ CanStart(r)
    /\ LET rec == [IdleReq EXCEPT !.kind = "checkout", !.id = id]
           rq == [req EXCEPT ![r] = Respond(rec, 400)]
       IN /\ req' = rq
          /\ heap' = Collect(heap, carts, rq)
    /\ ops' = ops + 1
    /\ UNCHANGED <<seqVars, ccaVars, lifeVars, whVars, carts, nextId,
                   published,
                   checkedOut>>

\* Variant of CheckoutLoad: an absent cart is answered like an empty one,
\* 400 "cannot checkout empty cart".
CheckoutLoadAbsentAsEmpty(r, id) ==
    /\ CanStart(r)
    /\ LET rec == [IdleReq EXCEPT !.kind = "checkout", !.id = id]
           rq == [req EXCEPT ![r] =
                    IF ~carts[id].present \/ carts[id].Items.len = 0
                    THEN Respond(rec, 400)
                    ELSE [rec EXCEPT !.pc = "authorize",
                                     !.hdr = carts[id].Items,
                                     !.loaded = ItemsOf(heap, carts[id].Items)]]
       IN /\ req' = rq
          /\ heap' = Collect(heap, carts, rq)
    /\ ops' = ops + 1
    /\ UNCHANGED <<seqVars, ccaVars, lifeVars, whVars, carts, nextId,
                   published,
                   checkedOut>>

\* Variant of CheckoutLoad: a cart is locked while a checkout on it is in
\* progress, and a second checkout on it is turned away with 409.
CheckoutLoadExclusive(r, id) ==
    /\ CanStart(r)
    /\ LET rec == [IdleReq EXCEPT !.kind = "checkout", !.id = id]
           busy == \E k \in Reqs :
                     /\ req[k].kind = "checkout" /\ req[k].id = id
                     /\ req[k].pc \notin {"idle", "done"}
           rq == [req EXCEPT ![r] =
                    IF ~carts[id].present THEN Respond(rec, 404)
                    ELSE IF busy THEN Respond(rec, 409)
                    ELSE IF carts[id].Items.len = 0 THEN Respond(rec, 400)
                    ELSE [rec EXCEPT !.pc = "authorize",
                                     !.hdr = carts[id].Items,
                                     !.loaded = ItemsOf(heap, carts[id].Items)]]
       IN /\ req' = rq
          /\ heap' = Collect(heap, carts, rq)
    /\ ops' = ops + 1
    /\ UNCHANGED <<seqVars, ccaVars, lifeVars, whVars, carts, nextId,
                   published,
                   checkedOut>>

\* Variant of CheckoutLoad: the check len(cart.Items) == 0 is missing.
CheckoutLoadUnchecked(r, id) ==
    /\ CanStart(r)
    /\ LET rec == [IdleReq EXCEPT !.kind = "checkout", !.id = id]
           rq == [req EXCEPT ![r] =
                    IF ~carts[id].present THEN Respond(rec, 404)
                    ELSE [rec EXCEPT !.pc = "authorize",
                                     !.hdr = carts[id].Items,
                                     !.loaded = ItemsOf(heap, carts[id].Items)]]
       IN /\ req' = rq
          /\ heap' = Collect(heap, carts, rq)
    /\ ops' = ops + 1
    /\ UNCHANGED <<seqVars, ccaVars, lifeVars, whVars, carts, nextId,
                   published,
                   checkedOut>>

\* checkout: carts.Load, 404 if absent, 400 if the cart has no items
CheckoutLoad(r, id) ==
    /\ CanStart(r)
    /\ LET rec == [IdleReq EXCEPT !.kind = "checkout", !.id = id]
           rq == [req EXCEPT ![r] =
                    IF ~carts[id].present THEN Respond(rec, 404)
                    ELSE IF carts[id].Items.len = 0 THEN Respond(rec, 400)
                    ELSE [rec EXCEPT !.pc = "authorize",
                                     !.hdr = carts[id].Items,
                                     !.loaded = ItemsOf(heap, carts[id].Items)]]
       IN /\ req' = rq
          /\ heap' = Collect(heap, carts, rq)
    /\ ops' = ops + 1
    /\ UNCHANGED <<seqVars, ccaVars, lifeVars, whVars, carts, nextId,
                   published,
                   checkedOut>>

\* checkout: amount := calculateTotal(cart.Items); the POST to the gateway
\* goes out
CheckoutCallGateway(r) ==
    /\ req[r].kind = "checkout" /\ req[r].pc = "authorize"
    /\ req' = [req EXCEPT ![r].pc = "awaitcca",
                          ![r].amount =
                              calculateTotal(ItemsOf(heap, req[r].hdr)),
                          ![r].nCca = @ + 1]
    /\ UNCHANGED <<seqVars, ccaVars, lifeVars, whVars, carts, heap, nextId,
                   published,
                   ops,
                   checkedOut>>

\* checkout: the exchange with the gateway ends: its response, or the
\* failure of the exchange, reaches authorizePayment
CheckoutGatewayReturns(r, resp) ==
    /\ req[r].kind = "checkout" /\ req[r].pc = "awaitcca"
    /\ req' = [req EXCEPT ![r].pc = "decide", ![r].cca = resp]
    /\ UNCHANGED <<seqVars, ccaVars, lifeVars, whVars, carts, heap, nextId,
                   published,
                   ops,
                   checkedOut>>

\* checkout: err != nil gives 500
PaymentFailed(resp) == authorizePayment(resp).err

\* checkout: ccaResp.Status != "Authorized" gives 402
PaymentDeclined(resp) ==
    /\ ~authorizePayment(resp).err
    /\ authorizePayment(resp).Status # "Authorized"

\* Variant of CheckoutRefused: the cart is cleared before the refusal is
\* returned, carts.Delete(cartID).
CheckoutRefusedClearsCart(r) ==
    /\ req[r].kind = "checkout" /\ req[r].pc = "decide"
    /\ PaymentFailed(req[r].cca) \/ PaymentDeclined(req[r].cca)
    /\ LET cs == [carts EXCEPT ![req[r].id] = NoCart]
           rq == [req EXCEPT ![r] =
                    Respond(@, IF PaymentFailed(req[r].cca) THEN 500 ELSE 402)]
       IN /\ carts' = cs
          /\ req' = rq
          /\ heap' = Collect(heap, cs, rq)
    /\ UNCHANGED <<seqVars, ccaVars, lifeVars, whVars, nextId, published, ops,
                   checkedOut>>

\* Variant of CheckoutRefused: a failed exchange with the gateway is tried
\* once more before the 500.
CheckoutRefusedRetries(r) ==
    /\ req[r].kind = "checkout" /\ req[r].pc = "decide"
    /\ PaymentFailed(req[r].cca) \/ PaymentDeclined(req[r].cca)
    /\ LET rq == IF PaymentFailed(req[r].cca) /\ req[r].nCca < 2
                 THEN [req EXCEPT ![r].pc = "authorize",
                                  ![r].cca = NoResponse]
                 ELSE [req EXCEPT ![r] =
                         Respond(@, IF PaymentFailed(req[r].cca)
                                    THEN 500 ELSE 402)]
       IN /\ req' = rq
          /\ heap' = Collect(heap, carts, rq)
    /\ UNCHANGED <<seqVars, ccaVars, lifeVars, whVars, carts, nextId,
                   published, ops,
                   checkedOut>>

\* checkout: authorizePayment returned an error (500) or a status other
\* than "Authorized" (402)
CheckoutRefused(r) ==
    /\ req[r].kind = "checkout" /\ req[r].pc = "decide"
    /\ PaymentFailed(req[r].cca) \/ PaymentDeclined(req[r].cca)
    /\ LET rq == [req EXCEPT ![r] =
                    Respond(@, IF PaymentFailed(req[r].cca) THEN 500 ELSE 402)]
       IN /\ req' = rq
          /\ heap' = Collect(heap, carts, rq)
    /\ UNCHANGED <<seqVars, ccaVars, lifeVars, whVars, carts, nextId,
                   published, ops,
                   checkedOut>>

\* Variant of CheckoutPublish: the check of ccaResp.Status is missing, so
\* every response that is not an error goes on to the publish.
CheckoutPublishUnchecked(r, ok) ==
    /\ req[r].kind = "checkout" /\ req[r].pc = "decide"
    /\ ~PaymentFailed(req[r].cca)
    /\ IF ok
       THEN /\ published' = Append(published,
                               [cart_id |-> req[r].id,
                                items |-> ItemsOf(heap, req[r].hdr)])
            /\ req' = [req EXCEPT ![r].pc = "delete", ![r].nPub = @ + 1]
            /\ heap' = heap
       ELSE LET rq == [req EXCEPT ![r] =
                         Respond([@ EXCEPT !.pubErr = TRUE], 500)]
            IN /\ req' = rq
               /\ heap' = Collect(heap, carts, rq)
               /\ published' = published
    /\ UNCHANGED <<seqVars, ccaVars, lifeVars, whVars, carts, nextId, ops,
                   checkedOut>>

\* Variant of CheckoutPublish: the cart is cleared before the publish, so a
\* failed publish returns 500 with the cart gone.
CheckoutPublishClearsFirst(r, ok) ==
    /\ req[r].kind = "checkout" /\ req[r].pc = "decide"
    /\ ~PaymentFailed(req[r].cca) /\ ~PaymentDeclined(req[r].cca)
    /\ LET cs == [carts EXCEPT ![req[r].id] = NoCart] IN
       IF ok
       THEN /\ published' = Append(published,
                               [cart_id |-> req[r].id,
                                items |-> ItemsOf(heap, req[r].hdr)])
            /\ req' = [req EXCEPT ![r].pc = "delete", ![r].nPub = @ + 1]
            /\ carts' = cs
            /\ heap' = heap
       ELSE LET rq == [req EXCEPT ![r] =
                         Respond([@ EXCEPT !.pubErr = TRUE], 500)]
            IN /\ req' = rq
               /\ carts' = cs
               /\ heap' = Collect(heap, cs, rq)
               /\ published' = published
    /\ UNCHANGED <<seqVars, ccaVars, lifeVars, whVars, nextId, ops,
                   checkedOut>>

\* checkout after "Authorized": publishToWarehouse; json.Marshal(order) reads
\* the items through the header copied at load; rabbitmqCh.Publish succeeds,
\* or fails (500)
CheckoutPublish(r, ok) ==
    /\ req[r].kind = "checkout" /\ req[r].pc = "decide"
    /\ ~PaymentFailed(req[r].cca) /\ ~PaymentDeclined(req[r].cca)
    /\ IF ok
       THEN /\ published' = Append(published,
                               [cart_id |-> req[r].id,
                                items |-> ItemsOf(heap, req[r].hdr)])
            /\ req' = [req EXCEPT ![r].pc = "delete", ![r].nPub = @ + 1]
            /\ heap' = heap
       ELSE LET rq == [req EXCEPT ![r] =
                         Respond([@ EXCEPT !.pubErr = TRUE], 500)]
            IN /\ req' = rq
               /\ heap' = Collect(heap, carts, rq)
               /\ published' = published
    /\ UNCHANGED <<seqVars, ccaVars, lifeVars, whVars, carts, nextId, ops,
                   checkedOut>>

\* Variant of CheckoutDelete: the whole store is emptied, not only the
\* cart checked out.
CheckoutDeleteClearsStore(r) ==
    /\ req[r].kind = "checkout" /\ req[r].pc = "delete"
    /\ LET cs == [i \in CartIds |-> NoCart]
           rq == [req EXCEPT ![r] =
                    [Respond(@, 200) EXCEPT !.amount = req[r].amount]]
       IN /\ carts' = cs
          /\ req' = rq
          /\ heap' = Collect(heap, cs, rq)
    /\ checkedOut' = checkedOut \cup {req[r].id}
    /\ UNCHANGED <<seqVars, ccaVars, lifeVars, whVars, nextId, published, ops>>

\* checkout: carts.Delete(cartID), 200 with order_id, transaction_id and
\* total_amount
CheckoutDelete(r) ==
    /\ req[r].kind = "checkout" /\ req[r].pc = "delete"
    /\ LET cs == [carts EXCEPT ![req[r].id] = NoCart]
           rq == [req EXCEPT ![r] =
                    [Respond(@, 200) EXCEPT !.amount = req[r].amount]]
       IN /\ carts' = cs
          /\ req' = rq
          /\ heap' = Collect(heap, cs, rq)
    /\ checkedOut' = checkedOut \cup {req[r].id}
    /\ UNCHANGED <<seqVars, ccaVars, lifeVars, whVars, nextId, published, ops>>

\* Any number of handlers run concurrently.
CartNext ==
    \/ \E r \in Reqs : CreateCart(r)
    \/ \E r \in Reqs, id \in CartIds : GetCart(r, id)
    \/ \E r \in Reqs, id \in CartIds, p \in CartProducts, q \in QtyInputs :
          AddItemLoad(r, id, p, q)
    \/ \E r \in Reqs : AddItemScan(r)
    \/ \E r \in Reqs : AddItemIncrement(r)
    \/ \E r \in Reqs : AddItemAppend(r)
    \/ \E r \in Reqs : AddItemStore(r)
    \/ \E r \in Reqs, id \in CartIds : CheckoutBadRequest(r, id)
    \/ \E r \in Reqs, id \in CartIds : CheckoutLoad(r, id)
    \/ \E r \in Reqs : CheckoutCallGateway(r)
    \/ \E r \in Reqs, resp \in GatewayResponses :
          CheckoutGatewayReturns(r, resp)
    \/ \E r \in Reqs : CheckoutRefused(r)
    \/ \E r \in Reqs, ok \in BOOLEAN : CheckoutPublish(r, ok)
    \/ \E r \in Reqs : CheckoutDelete(r)

\* The cart service runs; the warehouse service does not.
CartServiceInit ==
    CartInit /\ WhIdle /\ LifeIdle /\ CcaIdle /\ SeqIdle

CartSpec == CartServiceInit /\ [][CartNext]_vars

\* One request at a time: every handler returns before the next starts (a
\* lone request always runs in slot 1).
CartSeqNext ==
    \/ CreateCart(1)
    \/ \E id \in CartIds : GetCart(1, id)
    \/ \E id \in CartIds, p \in CartProducts, q \in QtyInputs :
          AddItemLoad(1, id, p, q)
    \/ AddItemScan(1)
    \/ AddItemIncrement(1)
    \/ AddItemAppend(1)
    \/ AddItemStore(1)
    \/ \E id \in CartIds : CheckoutBadRequest(1, id)
    \/ \E id \in CartIds : CheckoutLoad(1, id)
    \/ CheckoutCallGateway(1)
    \/ \E resp \in GatewayResponses : CheckoutGatewayReturns(1, resp)
    \/ CheckoutRefused(1)
    \/ \E ok \in BOOLEAN : CheckoutPublish(1, ok)
    \/ CheckoutDelete(1)

CartSeqSpec == CartServiceInit /\ [][CartSeqNext]_vars

(***************************************************************************)
(* Shopping cart service: addItemToCart as a function of the cart's Items, *)
(* applied call after call to the cart createCart stored.                  *)
(***************************************************************************)
\* AddItem calls in one sequence.
MaxCalls == 3

\* Quantities of the calls of a sequence (all pass the binding).
SeqQuantities == {1, 2}

\* Variant of AddItemTo: the quantity of the line found is replaced by the
\* requested one.
AddItemToOverwrites(items, p, q) ==
    LET hits == { i \in 1..Len(items) : items[i].product_id = p } IN
    IF hits = {} THEN Append(items, Item(p, q))
    ELSE LET i == CHOOSE k \in hits : \A j \in hits : k <= j
         IN [items EXCEPT ![i].quantity = q]

\* addItemToCart on a cart nobody else touches: the first line with the
\* product id gets the quantity added, or a new line is appended
AddItemTo(items, p, q) ==
    LET hits == { i \in 1..Len(items) : items[i].product_id = p } IN
    IF hits = {} THEN Append(items, Item(p, q))
    ELSE LET i == CHOOSE k \in hits : \A j \in hits : k <= j
         IN [items EXCEPT ![i].quantity = @ + q]

\* createCart has stored the cart (Items: []CartItem{}); the calls to come
\* are chosen.
AddSeqInit ==
    /\ addCalls \in SeqsUpTo([product_id : CartProducts,
                              quantity : SeqQuantities], MaxCalls)
    /\ addDone = 0
    /\ addLines = <<>>
    /\ WhIdle /\ LifeIdle /\ CartIdle /\ CcaIdle

\* The next call of the sequence runs from its load to its store.
AddItemNextCall ==
    /\ addDone < Len(addCalls)
    /\ addLines' = AddItemTo(addLines, addCalls[addDone + 1].product_id,
                             addCalls[addDone + 1].quantity)
    /\ addDone' = addDone + 1
    /\ UNCHANGED <<whVars, cartVars, lifeVars, ccaVars, addCalls>>

AddSeqNext == AddItemNextCall

AddSeqSpec == AddSeqInit /\ [][AddSeqNext]_vars

(***************************************************************************)
(* Properties of the warehouse service.                                    *)
(***************************************************************************)
AllMsgs == 1..Len(sent)

RECURSIVE ItemsQty(_, _)
\* Sum of the quantities of product p over a sequence of items.
ItemsQty(items, p) ==
    IF items = <<>> THEN 0
    ELSE (IF Head(items).product_id = p THEN Head(items).quantity ELSE 0)
         + ItemsQty(Tail(items), p)

RECURSIVE SentQty(_, _)
\* Sum of the quantities of product p over the first n messages.
SentQty(n, p) ==
    IF n = 0 THEN 0 ELSE ItemsQty(sent[n].items, p) + SentQty(n - 1, p)

WorkersIdle == \A w \in Workers : wPc[w] \in {"recv", "stopped"}

\* C1: once every one of the N messages has been acknowledged, total_orders
\* is exactly N and product_quantity holds, for every product, the sum of
\* that product's quantities over the N messages, whatever the interleaving.
C1_CountersMatchAckedMessages ==
    (acked = AllMsgs) =>
        /\ totalOrders = Len(sent)
        /\ \A p \in WhProducts : productQty[p] = SentQty(Len(sent), p)

C1_Witness ==
    /\ Len(sent) >= 2
    /\ acked = AllMsgs
    /\ productQty["P1"] >= 3
    /\ productQty["P2"] >= 1

\* C2: after the termination signal has been received, the consumer is
\* cancelled, the distributor closes the distribution buffer, every worker
\* returns, wg.Wait returns and the final statistics are eventually printed.
C2_ShutdownTerminates == (mainPc = "cancel") ~> (statsOut # NoStats)

\* C3: when the final statistics are printed, every message the consumer
\* received has been acknowledged or rejected, no worker is in the middle of
\* a message, the counter covers every acknowledged order, and the messages
\* never received are still on the broker.
C3_NothingInFlightAtStats ==
    (statsOut # NoStats) =>
        /\ received \subseteq (acked \cup rejected)
        /\ WorkersIdle
        /\ messageChan = <<>>
        /\ statsOut >= Cardinality(acked)
        /\ \A m \in AllMsgs \ received : \E i \in 1..Len(ready) : ready[i] = m

\* A worker finishes the handling of a message whose body does not parse.
RejectsMalformed(w) ==
    /\ wPc[w] = "unmarshal"
    /\ Unmarshal(sent[wMsg[w]]).err
    /\ wPc'[w] # "unmarshal"

Counted(w) == wPc[w] \in {"lock", "update", "unlock", "ack"}

\* The line items of its message that worker w has added to productQty.
AppliedItems(w) ==
    IF ~Counted(w) THEN <<>>
    ELSE IF wPc[w] \in {"lock", "update"}
         THEN SubSeq(wOrder[w].Items, 1, wIdx[w] - 1)
    ELSE IF wPc[w] = "unlock" THEN SubSeq(wOrder[w].Items, 1, wIdx[w])
    ELSE wOrder[w].Items

RECURSIVE AckedQty(_, _)
\* Sum of the quantities of product p over the messages of the set S.
AckedQty(S, p) ==
    IF S = {} THEN 0
    ELSE LET m == CHOOSE x \in S : TRUE
         IN ItemsQty(sent[m].items, p) + AckedQty(S \ {m}, p)

RECURSIVE WorkersQty(_, _)
\* Sum of the quantities of product p the workers of W have added for the
\* messages they hold.
WorkersQty(W, p) ==
    IF W = {} THEN 0
    ELSE LET w == CHOOSE x \in W : TRUE
         IN ItemsQty(AppliedItems(w), p) + WorkersQty(W \ {w}, p)

\* C11: a message is acknowledged only after total_orders has been
\* incremented for it and all its line items have been added to
\* product_quantity: the broker sees an acknowledgement only in the step of
\* a worker that holds the message and has finished processOrder for it
\* (never at delivery, as auto-ack would do), so the counters always cover
\* every acknowledged message and every message a worker has counted.
C11_AckOnlyAfterProcessing ==
    /\ [](/\ totalOrders >=
              Cardinality(acked) + Cardinality({w \in Workers : Counted(w)})
          /\ \A p \in WhProducts :
                productQty[p] >= AckedQty(acked, p) + WorkersQty(Workers, p))
    /\ [][\A m \in acked' \ acked :
            \E w \in Workers :
                /\ wMsg[w] = m
                /\ wPc[w] = "ack"
                /\ wOrder[w] = Unmarshal(sent[m]).order
                /\ wIdx[w] = Len(wOrder[w].Items) + 1]_vars

C11_Witness ==
    /\ Len(sent) >= 2
    /\ acked = {1}
    /\ Len(sent[1].items) = 2
    /\ \E w \in Workers : wMsg[w] = 2 /\ wPc[w] = "unlock"
    /\ totalOrders = 2

\* The elements of a sequence.
SeqSet(q) == { q[i] : i \in 1..Len(q) }

\* Messages the consumer process holds: buffered in msgs, in the
\* distributor's hands, in messageChan, or with a worker.
Held ==
    SeqSet(msgs) \cup SeqSet(messageChan)
        \cup (({distMsg} \cup { wMsg[w] : w \in Workers }) \ {0})

\* C14: at every moment at most PrefetchCount (1) messages are delivered to
\* this consumer and not yet acknowledged or rejected, on the broker's books
\* and in the consumer's hands, whatever the number of workers and the
\* capacity of messageChan.
C14_UnackedWithinPrefetch ==
    /\ Cardinality(unacked) <= PrefetchCount
    /\ Cardinality(Held \ (acked \cup rejected)) <= PrefetchCount

C14_Witness ==
    /\ Cardinality(unacked) = PrefetchCount
    /\ ready # <<>>
    /\ connOpen /\ consuming
    /\ msgs = <<>> /\ messageChan = <<>>
    /\ \E w1, w2 \in Workers : wPc[w1] = "update" /\ wPc[w2] = "recv"

\* Two different workers are each processing a different message that is
\* not yet settled.
TwoWorkersBusy ==
    \E w1, w2 \in Workers :
        /\ w1 # w2
        /\ wPc[w1] \notin {"recv", "stopped", "off"}
        /\ wPc[w2] \notin {"recv", "stopped", "off"}
        /\ wMsg[w1] # wMsg[w2]
        /\ {wMsg[w1], wMsg[w2]} \cap (acked \cup rejected) = {}

\* C15: workers process messages in parallel: with at least two messages
\* waiting on the broker and at least two workers, as long as the connection
\* stays up and no termination signal arrives, two different workers come to
\* process two different unsettled messages at the same time.
C15_WorkersProcessInParallel ==
    (/\ Len(sent) >= 2
     /\ \A m \in AllMsgs : ~Unmarshal(sent[m]).err
     /\ NumWorkers >= 2
     /\ [](connOpen /\ sigChan = 0 /\ mainPc = "waitsig"))
        => <>TwoWorkersBusy

\* No state with two busy workers is reachable at all.
NeverTwoWorkersBusy == ~TwoWorkersBusy

\* The waits of connectRabbitMQ after the 1st .. 4th failed attempt.
ExpectedWaits == <<1, 2, 4, 8>>

\* connectRabbitMQ is still running.
Connecting == mainPc \in {"dial", "dialfailed"}

\* C16: at startup the consumer makes at most 5 connection attempts; after
\* the 1st, 2nd, 3rd and 4th failed attempt it waits 1, 2, 4 and 8 seconds
\* and it does not wait after the 5th; the first successful attempt ends the
\* loop (no further attempt, no further wait); 5 failures are fatal, and
\* then no queue was declared and no message was consumed.
C16_BoundedConnectRetries ==
    /\ [](/\ dialCount <= MaxDialAttempts
          /\ Len(slept) <= Len(ExpectedWaits)
          /\ slept = SubSeq(ExpectedWaits, 1, Len(slept))
          /\ mainPc = "dial" => dialCount = dialI /\ Len(slept) = dialI
          /\ mainPc = "dialfailed" =>
                dialCount = dialI + 1 /\ Len(slept) = dialI
          /\ (~Connecting /\ mainPc # "connectfatal") =>
                Len(slept) = dialCount - 1
          /\ mainPc = "connectfatal" =>
                /\ dialCount = MaxDialAttempts
                /\ slept = ExpectedWaits
                /\ ~queueDeclared
                /\ ~connOpen /\ ~consuming
                /\ received = {} /\ unacked = {}
                /\ acked = {} /\ rejected = {}
                /\ ready = [i \in 1..Len(sent) |-> i]
                /\ totalOrders = 0)
    /\ [][~Connecting => dialCount' = dialCount /\ slept' = slept]_vars
    /\ [][(mainPc = "dial" /\ connOpen') =>
            mainPc' = "setup" /\ slept' = slept]_vars

C16_Witness ==
    /\ mainPc = "connectfatal"
    /\ dialCount = 5
    /\ slept = <<1, 2, 4, 8>>
    /\ Len(sent) = 1

\* A later attempt succeeds and the consumer runs.
C16_WitnessConnected ==
    /\ dialCount = 3
    /\ slept = <<1, 2>>
    /\ acked = {1}

(***************************************************************************)
(* Properties of the shopping cart service.                                *)
(***************************************************************************)
\* What GET /shopping-carts/:id shows of the store: for every id, whether a
\* cart is stored and the lines read through its Items header.
StoreView ==
    [id \in CartIds |->
        [present |-> carts[id].present,
         items |-> ItemsOf(heap, carts[id].Items)]]

\* Slot r accepts a request in this step.
Starts(r) == ops' = ops + 1 /\ CanStart(r)

\* The handler in slot r returns in this step.
Returns(r) == req[r].pc \notin {"idle", "done"} /\ req'[r].pc = "done"

\* C4: after a checkout of a cart id has returned success, every later
\* GetCart on that id returns NotFound, under every interleaving.
C4_CheckedOutCartStaysGone ==
    [][\A r \in Reqs :
         (Starts(r) /\ req'[r].kind = "get" /\ req'[r].id \in checkedOut)
            => req'[r].status = 404]_vars

\* The gateway's decline of the contract: 402 with status "Declined".
GatewayDeclines(resp) ==
    ~resp.fail /\ resp.code = 402 /\ resp.status = "Declined"

\* C5: when the gateway declines, the checkout returns 402, publishes no
\* order, and the cart is still stored with the items it had when the
\* checkout loaded it.
C5_DeclinedKeepsCart ==
    [][\A r \in Reqs :
         (/\ req[r].kind = "checkout" /\ req[r].pc = "decide"
          /\ GatewayDeclines(req[r].cca)
          /\ req'[r] # req[r])
            => /\ req'[r].pc = "done"
               /\ req'[r].status = 402
               /\ req'[r].nPub = 0
               /\ published' = published
               /\ StoreView' = StoreView
               /\ StoreView'[req[r].id].present
               /\ StoreView'[req[r].id].items = req[r].loaded]_vars

C5_Witness ==
    \E r \in Reqs :
        /\ req[r].kind = "checkout" /\ req[r].pc = "done"
        /\ req[r].status = 402
        /\ req[r].nCca = 1
        /\ carts[req[r].id].present
        /\ carts[req[r].id].Items.len >= 2

\* C6: when the payment is authorized and the publish fails, the checkout
\* returns 500, the cart is still stored with the items it had at load, no
\* order is queued, and the gateway was called once only (no reversal).
C6_PublishFailureKeepsCart ==
    [][\A r \in Reqs :
         (/\ req[r].kind = "checkout" /\ req[r].pc = "decide"
          /\ ~PaymentFailed(req[r].cca) /\ ~PaymentDeclined(req[r].cca)
          /\ Returns(r))
            => /\ req'[r].status = 500
               /\ req'[r].nCca = 1
               /\ req'[r].nPub = 0
               /\ published' = published
               /\ StoreView' = StoreView
               /\ StoreView'[req[r].id].present
               /\ StoreView'[req[r].id].items = req[r].loaded]_vars

C6_Witness ==
    \E r \in Reqs :
        /\ req[r].kind = "checkout" /\ req[r].pc = "done"
        /\ req[r].pubErr
        /\ req[r].status = 500
        /\ carts[req[r].id].present
        /\ carts[req[r].id].Items.len >= 1

\* C7: a checkout of a stored cart with zero items returns 400 at once,
\* without a call to the gateway and without publishing, and the cart
\* stays in the store.
C7_EmptyCartNeverCharged ==
    [][\A r \in Reqs :
         (/\ Starts(r)
          /\ req'[r].kind = "checkout"
          /\ carts[req'[r].id].present
          /\ carts[req'[r].id].Items.len = 0)
            => /\ req'[r].pc = "done"
               /\ req'[r].status = 400
               /\ req'[r].nCca = 0
               /\ req'[r].nPub = 0
               /\ published' = published
               /\ StoreView' = StoreView
               /\ StoreView'[req'[r].id].present]_vars

C7_Witness ==
    \E r \in Reqs :
        /\ req[r].kind = "checkout" /\ req[r].pc = "done"
        /\ req[r].status = 400
        /\ carts[req[r].id].present
        /\ carts[req[r].id].Items.len = 0

\* The lines an AddItem of (p, q) must leave, given the lines before it.
HasLine(items, p) == \E i \in 1..Len(items) : items[i].product_id = p

\* C8: AddItem with a product id that already has a line adds exactly the
\* requested quantity to that line and leaves the number of lines and all
\* other lines unchanged; with a product id that has no line it appends
\* exactly one line with the requested quantity.
C8_AddItemMergesOrAppends ==
    [][\A r \in Reqs :
         (req[r].kind = "add" /\ req[r].pc = "store" /\ Returns(r))
            => LET old == req[r].loaded
                   new == StoreView'[req[r].id].items
                   p == req[r].pid
                   q == req[r].qty
               IN /\ req'[r].status = 200
                  /\ StoreView'[req[r].id].present
                  /\ IF HasLine(old, p)
                     THEN /\ Len(new) = Len(old)
                          /\ \A i \in 1..Len(old) :
                               /\ new[i].product_id = old[i].product_id
                               /\ new[i].quantity =
                                    old[i].quantity
                                    + (IF old[i].product_id = p THEN q ELSE 0)
                     ELSE new = Append(old, Item(p, q))]_vars

C8_Witness ==
    \E id \in CartIds :
        /\ carts[id].present
        /\ carts[id].Items.len = 4
        /\ StoreView[id].items[1] = Item("P1", 3)
        /\ StoreView[id].items[4] = Item("P4", 2)

\* C9: in every reachable state every stored cart has pairwise distinct
\* product ids across its lines and every line's quantity is at least 1.
C9_CartLinesDistinctAndPositive ==
    \A id \in CartIds :
        carts[id].present =>
            LET items == StoreView[id].items IN
            /\ \A i, j \in 1..Len(items) :
                 i # j => items[i].product_id # items[j].product_id
            /\ \A i \in 1..Len(items) : items[i].quantity >= 1

\* C12: a cart leaves the store only in the last step of a Checkout on its
\* id whose payment was authorized and whose order was published; no step
\* of GetCart, AddItem, CreateCart or of a Checkout that ends in 404, 400,
\* 402 or 500 removes a cart.
C12_RemovedOnlyBySuccessfulCheckout ==
    [][\A id \in CartIds :
         (carts[id].present /\ ~carts'[id].present)
            => \E r \in Reqs :
                 /\ req[r].kind = "checkout" /\ req[r].id = id
                 /\ req[r].pc = "delete"
                 /\ ~PaymentFailed(req[r].cca)
                 /\ ~PaymentDeclined(req[r].cca)
                 /\ req[r].nPub = 1
                 /\ \E i \in 1..Len(published) : published[i].cart_id = id
                 /\ req'[r].pc = "done"
                 /\ req'[r].status = 200]_vars

C12_Witness ==
    /\ checkedOut = {1}
    /\ ~carts[1].present
    /\ Len(published) = 1
    /\ published[1].cart_id = 1
    /\ ops = MaxOps

\* C13: the outcome of the payment step follows the gateway's HTTP status
\* alone: 200 is treated as Authorized (the checkout goes on to publish), 402
\* ends the checkout as Declined (402), 400, any other status and a failed
\* exchange end it as a failure (500), whatever the status field of the
\* response body says.
C13_OutcomeFollowsHttpStatus ==
    [][\A r \in Reqs :
         (/\ req[r].kind = "checkout" /\ req[r].pc = "decide"
          /\ req'[r] # req[r])
            => LET resp == req[r].cca IN
               IF ~resp.fail /\ resp.code = 200
               THEN req'[r].pc = "delete" \/ req'[r].pubErr
               ELSE /\ req'[r].pc = "done"
                    /\ req'[r].nPub = 0
                    /\ ~req'[r].pubErr
                    /\ req'[r].status =
                         (IF ~resp.fail /\ resp.code = 402 THEN 402
                          ELSE 500)]_vars

\* A checkout of cart id is between its load and its return in slot r.
CheckoutInFlight(r, id) ==
    /\ req[r].kind = "checkout" /\ req[r].id = id
    /\ req[r].pc \in {"authorize", "awaitcca", "decide", "delete"}

\* C17: a Checkout with a well-formed body that starts while another
\* Checkout on the same stored, non-empty cart is in flight (loaded, not yet
\* returned) is not held back:
\* it passes the emptiness check with the same items and goes on to the
\* gateway, so both call the gateway and both can publish an order for the
\* same cart_id.
C17_SecondCheckoutProceeds ==
    [][\A r \in Reqs, id \in CartIds :
         (/\ CheckoutLoad(r, id)
          /\ carts[id].present
          /\ carts[id].Items.len > 0
          /\ \E k \in Reqs \ {r} : CheckoutInFlight(k, id))
            => /\ req'[r].pc = "authorize"
               /\ req'[r].loaded = ItemsOf(heap, carts[id].Items)
               /\ carts' = carts]_vars

\* The double checkout: both handlers called the gateway, both published,
\* both returned 200.
C17_Witness ==
    /\ Len(published) = 2
    /\ published[1].cart_id = published[2].cart_id
    /\ published[1].items = published[2].items
    /\ \A r \in Reqs :
         /\ req[r].kind = "checkout" /\ req[r].pc = "done"
         /\ req[r].id = published[1].cart_id
         /\ req[r].nCca = 1 /\ req[r].nPub = 1
         /\ req[r].status = 200

\* C18: AddItem is last-write-wins: its store puts the handler's own copy
\* of the cart into the map and returns 200, whatever other AddItem calls on
\* the same cart loaded or stored since this one loaded; so with two
\* concurrent calls the stored cart can reflect only one of them.
C18_AddItemLastWriteWins ==
    [][\A r \in Reqs :
         (req[r].kind = "add" /\ req[r].pc = "store" /\ req'[r] # req[r])
            => /\ req'[r].pc = "done"
               /\ req'[r].status = 200
               /\ carts'[req[r].id] = StoredCart(req[r].hdr)
               /\ \A id \in CartIds \ {req[r].id} : carts'[id] = carts[id]]_vars

\* Two overlapping AddItem calls on cart 1, which held the single line
\* (P1, 1), both returned 200, and the cart holds (P1, 2): one quantity
\* delta is lost.
C18_Witness ==
    /\ ops = 2
    /\ nextId = 1
    /\ \A r \in Reqs :
         /\ req[r].kind = "add" /\ req[r].pc = "done"
         /\ req[r].id = 1 /\ req[r].status = 200
    /\ carts[1].present
    /\ StoreView[1].items = <<Item("P1", 2)>>

\* A message id is on the broker: waiting in the queue or delivered and
\* not settled.
OnBroker(m) == m \in SeqSet(ready) \cup unacked

\* C19: a message leaves the broker only by being acked or rejected: at
\* every moment, kills included, each message sent is either on the broker
\* or settled, never both and never neither; a kill puts every unsettled
\* delivery back on the queue, so a message a worker had processed and not
\* yet acked is on the queue for the next instance; and the next instance
\* counts every message it processes, counted before or not.
C19_AtLeastOnceAcrossCrash ==
    /\ [](\A m \in AllMsgs :
            /\ OnBroker(m) \/ m \in acked \/ m \in rejected
            /\ ~(OnBroker(m) /\ m \in acked \cup rejected)
            /\ ~(m \in acked /\ m \in rejected))
    /\ [][crashes' = crashes + 1 =>
            /\ \A m \in unacked : m \in SeqSet(ready')
            /\ \A w \in Workers :
                 (wPc[w] = "ack" /\ wMsg[w] \notin acked \cup rejected)
                    => wMsg[w] \in SeqSet(ready')
            /\ acked' = acked /\ rejected' = rejected]_vars
    /\ [][\A w \in Workers :
            (wPc[w] = "count" /\ wPc'[w] \notin {"count", "off"})
               => totalOrders' = totalOrders + 1]_vars

\* One message was sent; the first instance counted it and was killed
\* before the ack, the second instance received it again, counted it again
\* and acked it: two counts for one message.
C19_Witness ==
    /\ Len(sent) = 1
    /\ crashes = 1
    /\ prevTotal = 1
    /\ totalOrders = 1
    /\ acked = {1}

\* C20: a Checkout calls the gateway at most once and publishes at most
\* once, and only after its gateway call; a failed gateway exchange and a
\* failed publish each end the handler with 500, with no second call and
\* nothing published.
C20_NoRetryInCheckout ==
    /\ [](\A r \in Reqs :
            /\ req[r].nCca <= 1
            /\ req[r].nPub <= 1
            /\ req[r].nPub <= req[r].nCca)
    /\ [][\A r \in Reqs :
            (req[r].kind = "checkout" /\ req[r].pc = "decide"
               /\ req'[r] # req[r]
               /\ (PaymentFailed(req[r].cca) \/ published' = published))
               => /\ req'[r].pc = "done"
                  /\ req'[r].status \in {500, 402}
                  /\ req'[r].nCca = req[r].nCca
                  /\ req'[r].nPub = req[r].nPub
                  /\ published' = published]_vars
    /\ [][Len(published') <= Len(published) + 1]_vars

\* Two checkouts have returned 500: one after its single gateway call
\* failed, one after its single publish failed; nothing was published.
C20_Witness ==
    /\ published = <<>>
    /\ \E r, k \in Reqs :
         /\ req[r].kind = "checkout" /\ req[r].pc = "done"
         /\ req[r].status = 500 /\ ~req[r].pubErr
         /\ req[r].nCca = 1 /\ req[r].nPub = 0
         /\ req[k].kind = "checkout" /\ req[k].pc = "done"
         /\ req[k].status = 500 /\ req[k].pubErr
         /\ req[k].nCca = 1 /\ req[k].nPub = 0

\* C21: AddItem with a quantity outside MinQuantity..MaxQuantity returns
\* 400, and AddItem with a valid quantity on an absent cart id returns 404;
\* in both cases the handler ends at once and no cart of the store is
\* created or changed.
C21_AddItemRefusals ==
    [][\A r \in Reqs, id \in CartIds, p \in CartProducts, q \in QtyInputs :
         (AddItemLoad(r, id, p, q)
            /\ (~ValidQuantity(q) \/ ~carts[id].present))
            => /\ req'[r].pc = "done"
               /\ req'[r].status = IF ValidQuantity(q) THEN 404 ELSE 400
               /\ carts' = carts
               /\ StoreView' = StoreView]_vars

\* Two AddItem calls were refused, one with 404 and one with 400, and no
\* cart was created: cart 2, the absent id, is still absent.
C21_Witness ==
    /\ \A r \in Reqs : req[r].kind = "add" /\ req[r].pc = "done"
    /\ {req[r].status : r \in Reqs} = {400, 404}
    /\ \E r \in Reqs : req[r].status = 404 /\ ~carts[req[r].id].present
    /\ nextId = 1

\* C22: a Checkout with a well-formed body on an absent cart id returns
\* 404 at once: the handler has made no gateway call and no publish, and
\* the store and the published orders are as they were.
C22_CheckoutAbsentCart ==
    [][\A r \in Reqs, id \in CartIds :
         (CheckoutLoad(r, id) /\ ~carts[id].present)
            => /\ req'[r].pc = "done"
               /\ req'[r].status = 404
               /\ req'[r].nCca = 0
               /\ req'[r].nPub = 0
               /\ published' = published
               /\ carts' = carts
               /\ StoreView' = StoreView]_vars

\* A checkout of cart 2, which was never created, returned 404 while cart 1
\* is stored with its line; nothing was published.
C22_Witness ==
    /\ \E r \in Reqs :
         /\ req[r].kind = "checkout" /\ req[r].pc = "done"
         /\ req[r].id = 2 /\ req[r].status = 404
         /\ req[r].nCca = 0 /\ req[r].nPub = 0
    /\ nextId = 1
    /\ ~carts[2].present
    /\ StoreView[1].items = <<Item("P1", 1)>>
    /\ published = <<>>

\* Worker goroutines the process has started.
StartedWorkers == Cardinality({w \in Workers : wPc[w] # "off"})

\* The worker-pool size the deployment asks for: WAREHOUSE_WORKERS, or the
\* default (numWorkers in the code, NumWorkers here) when it is not set.
ConfiguredWorkers == IF envWorkers = Unset THEN NumWorkers ELSE envWorkers

\* C23: once the consumer has started its workers, their number equals the
\* configured worker-pool size: WAREHOUSE_WORKERS when it is set, the
\* default when it is not.
C23_WorkersMatchConfiguration ==
    StartedWorkers > 0 => StartedWorkers = ConfiguredWorkers

\* What the code does: main starts numWorkers goroutines, whatever the
\* environment holds.
StartsNumWorkersAlways ==
    StartedWorkers > 0 => StartedWorkers = NumWorkers

RECURSIVE SplitDash(_)
\* The groups of s between its dashes, in order.
SplitDash(s) ==
    IF \A i \in 1..Len(s) : s[i] # "-" THEN <<s>>
    ELSE LET d == CHOOSE i \in 1..Len(s) :
                    s[i] = "-" /\ \A j \in 1..(i - 1) : s[j] # "-"
         IN <<SubSeq(s, 1, d - 1)>> \o SplitDash(SubSeq(s, d + 1, Len(s)))

\* Four groups of four digits separated by dashes.
FourGroupsOfFourDigits(s) ==
    /\ Len(SplitDash(s)) = 4
    /\ \A g \in 1..4 :
         /\ Len(SplitDash(s)[g]) = 4
         /\ \A i \in 1..4 : SplitDash(s)[g][i] \in Digits

\* C24: the authorizer answers 400 exactly when the card number is not four
\* groups of four digits separated by dashes or the body does not bind; any
\* other answer is 200 with status Authorized and a transaction id, or 402
\* with status Declined and no transaction id.
C24_AuthorizerAnswers ==
    ccaPc = "done" =>
       /\ ccaOut.code = 400 <=>
             (~FourGroupsOfFourDigits(ccaIn.credit_card_number)
                \/ ~BindsAuthRequest(ccaIn))
       /\ ccaOut.code # 400 =>
             \/ /\ ccaOut.code = 200
                /\ ccaOut.status = "Authorized"
                /\ ccaOut.transaction_id # ""
             \/ /\ ccaOut.code = 402
                /\ ccaOut.status = "Declined"
                /\ ccaOut.transaction_id = ""

\* The example number with a character added after it was answered 400.
C24_Witness ==
    /\ ccaPc = "done"
    /\ ccaIn.amount # 0
    /\ Len(ccaIn.credit_card_number) = Len(ExampleCard) + 1
    /\ SubSeq(ccaIn.credit_card_number, 1, Len(ExampleCard)) = ExampleCard
    /\ ccaOut.code = 400

\* Message m was rejected, being malformed, or acknowledged, being
\* well-formed.
SettledAsDue(m) ==
    /\ m \in AllMsgs
    /\ IF Unmarshal(sent[m]).err THEN m \in rejected ELSE m \in acked

\* C25: as long as the connection stays up and no termination signal
\* arrives, every message the distributor has received is eventually
\* acknowledged (well-formed) or rejected (malformed), and a message put
\* into messageChan is eventually taken out of it.
C25_ReceivedIsSettled ==
    [](connOpen /\ sigChan = 0 /\ mainPc = "waitsig")
       => \A m \in 1..MaxMsgs :
            /\ (m \in received) ~> SettledAsDue(m)
            /\ (m \in SeqSet(messageChan)) ~> (m \notin SeqSet(messageChan))

\* All MaxMsgs messages were received and settled with the connection up
\* and no signal: the malformed ones rejected, the others acknowledged, at
\* least one of each.
C25_Witness ==
    /\ connOpen /\ sigChan = 0 /\ mainPc = "waitsig"
    /\ Len(sent) = MaxMsgs
    /\ received = AllMsgs
    /\ acked \cup rejected = AllMsgs
    /\ acked # {} /\ rejected # {}
    /\ \A m \in AllMsgs : m \in rejected <=> Unmarshal(sent[m]).err
    /\ messageChan = <<>>

\* Places of this instance that hold message m: the delivery channel, the
\* distributor, messageChan, each worker.
Holders(m) ==
    Cardinality({i \in 1..Len(msgs) : msgs[i] = m})
      + (IF distMsg = m THEN 1 ELSE 0)
      + Cardinality({i \in 1..Len(messageChan) : messageChan[i] = m})
      + Cardinality({w \in Workers : wMsg[w] = m})

\* C26: a message delivered to this instance is in one place at a time, so
\* one worker at most takes it; it is settled once, acked or rejected and
\* never both: a settlement is of a delivery that was unsettled, made by a
\* worker holding it; and its order is counted once per delivery: the
\* counter moves by one, when a worker that has just parsed the message
\* passes the count, so it never exceeds the well-formed messages received.
C26_OneWorkerOneSettlement ==
    /\ [](\A m \in AllMsgs :
            /\ Holders(m) <= 1
            /\ ~(m \in acked /\ m \in rejected))
    /\ [](totalOrders
             <= Cardinality({m \in received : ~Unmarshal(sent[m]).err}))
    /\ [][\A m \in AllMsgs :
            (m \in (acked' \cup rejected') \ (acked \cup rejected))
               => /\ m \in unacked
                  /\ \E w \in Workers :
                       /\ wMsg[w] = m
                       /\ wPc[w] = (IF m \in acked' THEN "ack" ELSE "unmarshal")
                       /\ wPc'[w] = "recv"
                  /\ acked \subseteq acked'
                  /\ rejected \subseteq rejected']_vars
    /\ [][totalOrders' # totalOrders /\ crashes' = crashes
            => /\ totalOrders' = totalOrders + 1
               /\ \E w \in Workers : wPc[w] = "count" /\ wPc'[w] # "count"]_vars

\* Two messages were delivered; workers took each once: the well-formed one
\* was counted once and acked, the malformed one rejected.
C26_Witness ==
    /\ Len(sent) = 2
    /\ received = {1, 2}
    /\ acked = {1}
    /\ rejected = {2}
    /\ totalOrders = 1
    /\ \A w \in Workers : wMsg[w] = 0 /\ wPc[w] = "recv"
    /\ crashes = 0

\* C27: whenever no worker is in the middle of a message, total_orders is
\* the number of messages whose Ack succeeded in this instance and
\* product_quantity holds the quantities of exactly those messages: a
\* message whose Ack failed has added nothing.
C27_CountersOnlyFromAcked ==
    WorkersIdle =>
        /\ totalOrders = Cardinality(acked)
        /\ \A p \in WhProducts : productQty[p] = AckedQty(acked, p)

\* The handler in slot r publishes its order in this step.
Publishes(r) ==
    /\ req[r].kind = "checkout" /\ req[r].pc = "decide"
    /\ req'[r].nPub = req[r].nPub + 1
    /\ Len(published') = Len(published) + 1

\* C28: the order a Checkout publishes holds the cart's items as the
\* checkout loaded them, and the amount it sent to the gateway is UnitPrice
\* times the sum of the published quantities, also when AddItem calls on
\* the same cart run at the same time.
C28_PublishedIsLoadedSnapshot ==
    [][\A r \in Reqs :
         Publishes(r)
            => /\ published'[Len(published')].items = req[r].loaded
               /\ req[r].amount
                    = calculateTotal(published'[Len(published')].items)]_vars

\* The handler in slot r holds a gateway response that authorizePayment
\* hands on without error (200, or 402 with its body) and whose status is
\* Authorized, and has not published yet.
HoldsAuthorization(r) ==
    /\ req[r].kind = "checkout" /\ req[r].pc = "decide"
    /\ req[r].nCca = 1 /\ req[r].nPub = 0
    /\ ~req[r].cca.fail
    /\ req[r].cca.code \in {200, 402}
    /\ req[r].cca.status = "Authorized"

\* C29: the published orders grow one at a time, and each is added by a
\* Checkout that holds the Authorized answer of its own gateway call and
\* gives it up in the same step; after a Declined answer or a failed call
\* the handler returns with nothing published.  So the published orders
\* never outnumber the Authorized decisions.
C29_PublishedOnlyWhenAuthorized ==
    /\ [][published' # published
            => /\ Len(published') = Len(published) + 1
               /\ SubSeq(published', 1, Len(published)) = published
               /\ \E r \in Reqs :
                    /\ HoldsAuthorization(r)
                    /\ req'[r].pc = "delete" /\ req'[r].nPub = 1
                    /\ published'[Len(published')].cart_id = req[r].id]_vars
    /\ [][\A r \in Reqs :
            (req[r].kind = "checkout" /\ req[r].pc = "decide"
               /\ req'[r] # req[r] /\ ~HoldsAuthorization(r))
               => /\ published' = published
                  /\ req'[r].pc = "done"
                  /\ req'[r].status \in {402, 500}]_vars

\* One checkout was authorized, published and returned 200; another was
\* declined and returned 402; one order is published.
C29_Witness ==
    /\ Len(published) = 1
    /\ \E r, k \in Reqs :
         /\ req[r].kind = "checkout" /\ req[r].pc = "done"
         /\ req[r].status = 200 /\ req[r].nPub = 1
         /\ published[1].cart_id = req[r].id
         /\ req[k].kind = "checkout" /\ req[k].pc = "done"
         /\ req[k].status = 402 /\ req[k].nCca = 1 /\ req[k].nPub = 0

\* C30: when the gateway answers 400, the Checkout returns 500, not the
\* 402 of a declined payment, without publishing and without touching the
\* store.
C30_Gateway400IsUpstreamFailure ==
    [][\A r \in Reqs :
         (/\ req[r].kind = "checkout" /\ req[r].pc = "decide"
          /\ ~req[r].cca.fail /\ req[r].cca.code = 400
          /\ req'[r] # req[r])
            => /\ req'[r].pc = "done"
               /\ req'[r].status = 500
               /\ req'[r].nPub = 0
               /\ ~req'[r].pubErr
               /\ published' = published
               /\ carts' = carts
               /\ StoreView' = StoreView]_vars

\* A checkout of cart 1 got a 400 from the gateway and returned 500; the
\* cart is stored with its line and nothing was published.
C30_Witness ==
    /\ req[1].kind = "checkout" /\ req[1].pc = "done"
    /\ req[1].id = 1
    /\ ~req[1].cca.fail /\ req[1].cca.code = 400
    /\ req[1].status = 500
    /\ req[1].nCca = 1 /\ req[1].nPub = 0
    /\ published = <<>>
    /\ carts[1].present
    /\ StoreView[1].items = <<Item("P1", 1)>>

\* Worker w is between productMutex.Lock() and productMutex.Unlock().
InRegion(w) == wPc[w] \in {"update", "unlock"}

\* Well-formed messages this instance has received and finished processing.
Processed == {m \in received : ~Unmarshal(sent[m]).err /\ m \notin Held}

\* C31: a worker inside the region that reads and writes product_quantity
\* holds productMutex, so at most one worker is inside at a time, and
\* product_quantity changes only inside; total_orders is incremented by a
\* worker outside the region.  No update is lost: the counters are exactly
\* what the finished messages and the workers' finished steps add up to.
C31_ExclusiveRegionNoLostUpdate ==
    /\ [](/\ \A w \in Workers : InRegion(w) <=> productMutex = w
          /\ Cardinality({w \in Workers : InRegion(w)}) <= 1
          /\ totalOrders = Cardinality(Processed)
                             + Cardinality({w \in Workers : Counted(w)})
          /\ \A p \in WhProducts :
               productQty[p] = AckedQty(Processed, p) + WorkersQty(Workers, p))
    /\ [][productQty' # productQty
            => \E w \in Workers : productMutex = w /\ wPc[w] = "update"]_vars
    /\ [][totalOrders' # totalOrders
            => /\ totalOrders' = totalOrders + 1
               /\ \E w \in Workers :
                    /\ wPc[w] = "count" /\ wPc'[w] # "count"
                    /\ ~InRegion(w) /\ productMutex # w]_vars

\* Message 1 is processed and acked; a worker holds productMutex and is
\* about to write message 2's first line; total_orders is 2.
C31_Witness ==
    /\ Len(sent) >= 2
    /\ acked = {1}
    /\ Len(sent[1].items) >= 1
    /\ totalOrders = 2
    /\ \E w \in Workers :
         /\ wMsg[w] = 2 /\ wPc[w] = "update" /\ productMutex = w
         /\ \A v \in Workers \ {w} : ~InRegion(v)

\* C32: messageChan never holds more than MessageChanCap = 2 * NumWorkers
\* messages; it changes only by the distributor appending the message it
\* holds, which it does only while there is room, or by a worker taking the
\* head, so nothing is dropped or overwritten; and it is closed only after
\* the delivery stream has ended and was drained, and never written after.
C32_BoundedBufferClosedAfterStream ==
    /\ [](/\ Len(messageChan) <= MessageChanCap
          /\ chanClosed => (msgsClosed /\ msgs = <<>> /\ distPc = "done"))
    /\ [][messageChan' # messageChan /\ crashes' = crashes
            => \/ /\ distPc = "send" /\ ~chanClosed
                  /\ Len(messageChan) < MessageChanCap
                  /\ messageChan' = Append(messageChan, distMsg)
               \/ /\ messageChan # <<>>
                  /\ messageChan' = Tail(messageChan)
                  /\ \E w \in Workers : wMsg'[w] = Head(messageChan)]_vars
    /\ [][chanClosed' /\ ~chanClosed => (msgsClosed /\ msgs = <<>>)]_vars

\* The stream ended while the distributor held a delivery: the distributor
\* put it into messageChan and then closed messageChan, which still holds
\* it.
C32_Witness ==
    /\ chanClosed /\ msgsClosed /\ msgs = <<>>
    /\ distPc = "done"
    /\ Len(messageChan) = 1
    /\ received = {1}

\* With at most PrefetchCount unsettled deliveries, messageChan never holds
\* more than PrefetchCount messages.
BufferWithinPrefetch == Len(messageChan) <= PrefetchCount

RECURSIVE SumQuantity(_)
\* The sum of the quantities of a sequence of lines.
SumQuantity(items) ==
    IF items = <<>> THEN 0
    ELSE items[Len(items)].quantity
           + SumQuantity(SubSeq(items, 1, Len(items) - 1))

\* C33: the amount a Checkout sends to the gateway is UnitPrice times the
\* sum of the quantities of the lines of the cart it loaded, as its copy of
\* the cart shows them when the total is computed; the handler keeps that
\* amount to its end, and the total it returns with the 200 is the amount
\* it sent.
C33_TotalIsTenPerUnit ==
    /\ [][\A r \in Reqs :
            (req[r].kind = "checkout" /\ req[r].pc = "authorize"
               /\ req'[r] # req[r])
               => /\ req'[r].pc = "awaitcca"
                  /\ req'[r].amount =
                       UnitPrice
                         * SumQuantity(ItemsOf(heap, req[r].hdr))]_vars
    /\ [][\A r \in Reqs :
            (req[r].kind = "checkout" /\ req'[r] # req[r]
               /\ req[r].pc \in {"awaitcca", "decide", "delete"})
               => \/ req'[r].amount = req[r].amount
                  \/ req'[r].pc = "done" /\ req'[r].status # 200]_vars
    /\ [](\A r \in Reqs :
            (req[r].kind = "checkout" /\ req[r].pc = "done"
               /\ req[r].status # 200) => req[r].amount = 0)

\* Cart 1 held (P1, 1) and (P2, 1); one more P1 was added; the checkout
\* published (P1, 2), (P2, 1), and returned 200 with the total 30.
C33_Witness ==
    /\ Len(published) = 1
    /\ published[1].items = <<Item("P1", 2), Item("P2", 1)>>
    /\ req[1].kind = "checkout" /\ req[1].pc = "done"
    /\ req[1].status = 200
    /\ req[1].amount = 3 * UnitPrice

RECURSIVE AddedFor(_, _)
\* The sum of the quantities the calls of cs ask for product p.
AddedFor(cs, p) ==
    IF cs = <<>> THEN 0
    ELSE (IF Head(cs).product_id = p THEN Head(cs).quantity ELSE 0)
           + AddedFor(Tail(cs), p)

RECURSIVE AddAll(_, _)
\* The cart's Items after the calls of cs, applied in order to items.
AddAll(items, cs) ==
    IF cs = <<>> THEN items
    ELSE AddAll(AddItemTo(items, Head(cs).product_id, Head(cs).quantity),
                Tail(cs))

\* The sequences that hold the calls of cs in some order.
Reorderings(cs) ==
    { [i \in 1..Len(cs) |-> cs[f[i]]] :
        f \in { g \in [1..Len(cs) -> 1..Len(cs)] :
                  \A i, j \in 1..Len(cs) : g[i] = g[j] => i = j } }

\* The lines of a cart, their order forgotten.
LineSet(items) == { items[i] : i \in 1..Len(items) }

\* C34: after any number of the calls, applied one after another, the cart
\* has exactly one line for each product asked for, holding the sum of the
\* quantities asked for it, and no other line; and the calls applied in any
\* other order give the same lines, in a possibly different order.
C34_SequentialAddsSumUp ==
    /\ \A p \in CartProducts :
         LET want == AddedFor(SubSeq(addCalls, 1, addDone), p)
             have == { i \in 1..Len(addLines) : addLines[i].product_id = p }
         IN IF want = 0 THEN have = {}
            ELSE /\ Cardinality(have) = 1
                 /\ \A i \in have : addLines[i].quantity = want
    /\ \A i \in 1..Len(addLines) : addLines[i].product_id \in CartProducts
    /\ addDone = Len(addCalls) =>
         \A cs \in Reorderings(addCalls) :
            /\ LineSet(AddAll(<<>>, cs)) = LineSet(addLines)
            /\ Len(AddAll(<<>>, cs)) = Len(addLines)

\* P1 x 2, P4 x 1, P1 x 1 were applied: the cart holds (P1, 3), (P4, 1);
\* applied in the order P4, P1, P1 the lines come in the other order.
C34_Witness ==
    /\ addCalls = <<Item("P1", 2), Item("P4", 1), Item("P1", 1)>>
    /\ addDone = 3
    /\ addLines = <<Item("P1", 3), Item("P4", 1)>>
    /\ AddAll(<<>>, <<Item("P4", 1), Item("P1", 2), Item("P1", 1)>>)
         = <<Item("P4", 1), Item("P1", 3)>>

\* The handler's steps, run alone, store what AddItemTo gives for the cart
\* they loaded.
AddItemStoresAddItemTo ==
    [][\A r \in Reqs :
         (req[r].kind = "add" /\ req[r].pc = "store" /\ req'[r] # req[r])
            => StoreView'[req[r].id].items
                 = AddItemTo(req[r].loaded, req[r].pid, req[r].qty)]_vars

\* C35: whatever the handlers do concurrently, what is stored under a cart
\* id changes only in a step of a CreateCart, AddItem or Checkout handler
\* working on that id, so no handler changes a cart with another id;
\* CreateCart stores, under an id no cart ever had, a cart without items;
\* GetCart changes no stored cart.
C35_OtherCartsUntouched ==
    /\ [][\A id \in CartIds :
            StoreView'[id] # StoreView[id]
               => \E r \in Reqs :
                     /\ req'[r] # req[r]
                     /\ req'[r].id = id
                     /\ req'[r].kind \in {"create", "add", "checkout"}]_vars
    /\ [][\A r \in Reqs :
            CreateCart(r)
               => /\ req'[r].id \notin checkedOut
                  /\ req'[r].id > nextId
                  /\ ~StoreView[req'[r].id].present
                  /\ StoreView'[req'[r].id] = [present |-> TRUE, items |-> <<>>]
                  /\ \A id \in CartIds \ {req'[r].id} :
                        StoreView'[id] = StoreView[id]]_vars
    /\ [][\A r \in Reqs, id \in CartIds :
            GetCart(r, id) => StoreView' = StoreView]_vars
    /\ [][\A r \in Reqs :
            (req[r].kind \in {"add", "checkout"} /\ req'[r] # req[r]
               /\ req[r].pc \notin {"idle", "done"})
               => \A id \in CartIds \ {req[r].id} :
                     StoreView'[id] = StoreView[id]]_vars

\* Cart 2 was created, filled and checked out while cart 1 kept its lines.
C35_Witness ==
    /\ checkedOut = {2}
    /\ ~StoreView[2].present
    /\ StoreView[1].present
    /\ StoreView[1].items # <<>>
    /\ published # <<>>

\* The distributor and every worker have left their loops, nothing is left
\* in the delivery stream or in messageChan.
Drained ==
    /\ chanClosed /\ distPc = "done"
    /\ msgs = <<>> /\ messageChan = <<>>
    /\ \A w \in Workers : wPc[w] = "stopped"

\* Message m is in messageChan and its body is an order.
BufferedOrder(m) ==
    /\ m \in SeqSet(messageChan)
    /\ ~Unmarshal(sent[m]).err

BufferedAfterLoss ==
    ~connOpen /\ \E m \in AllMsgs : BufferedOrder(m)

====
